---- MODULE Spec2Model ----
(***************************************************************************)
(* pktparse: decoders of network protocol headers (Ethernet / 802.1Q, ARP, *)
(* IPv4, IPv6, ICMP, TCP with options, UDP) from a byte slice.             *)
(*                                                                         *)
(* Every decoder is a pure function from a byte slice to an IResult:       *)
(*   Ok((remaining, record)) | Err(Incomplete(needed)) | Err(Failure).     *)
(* The state machine around the decoders is the caller the streaming       *)
(* contract is written for: a packet arrives on the wire in chunks, the    *)
(* caller keeps the bytes received so far in a buffer and applies a        *)
(* decoder to that buffer.                                                 *)
(***************************************************************************)
EXTENDS Integers, Sequences, FiniteSets, TLC

VARIABLES
    wire,      \* the bytes of the packet being captured (a sequence of 0..255)
    avail,     \* how many bytes of wire have arrived in the caller's buffer
    decoder,   \* the decoder the caller applied last ("none" before any call)
    outcome    \* the IResult that call returned

vars == <<wire, avail, decoder, outcome>>

(***************************************************************************)
(* Bounds of the model.                                                    *)
(***************************************************************************)
\* bytes of payload that follow a captured header on the wire
MaxTail == 2
\* most options the capture source puts in a TCP option span
MaxOpts == 2
\* ICMP code bytes 0..MaxCode (and 255) are captured for each ICMP type
MaxCode == 16
\* most bytes one Receive step delivers
MaxChunk == 2

(***************************************************************************)
(* IResult                                                                 *)
(***************************************************************************)
Done(rest, val) == [kind |-> "Ok", rest |-> rest, val |-> val]

Incomplete(n) == [kind |-> "Incomplete", needed |-> n]

Failure == [kind |-> "Failure"]

IsOk(r) == r.kind = "Ok"

\* Option<T>
None == <<>>

Some(v) == <<v>>

\* input[n..]
Drop(input, n) == SubSeq(input, n + 1, Len(input))

(***************************************************************************)
(* Fixed-width integer arithmetic                                          *)
(***************************************************************************)
RECURSIVE BitAnd(_, _)
BitAnd(a, b) ==
    IF a = 0 \/ b = 0 THEN 0
    ELSE (a % 2) * (b % 2) + 2 * BitAnd(a \div 2, b \div 2)

\* x << k on an unsigned integer of w bits (bits shifted out are lost)
Shl(x, k, w) == (x * 2^k) % 2^w

Shr(x, k) == x \div 2^k

\* x + y on an unsigned integer of w bits, as a release build computes it
AddW(x, y, w) == (x + y) % 2^w

\* A u32 is kept as its two 16-bit halves <<high, low>>: the model checker's
\* integers are 32-bit signed and cannot hold every u32.
U32(hi, lo) == <<hi, lo>>

\* u32::from(n) for an n below 2^16
U32From(n) == U32(0, n)

\* x << k on a u32, for 0 <= k <= 16
Shl32(x, k) ==
    U32(((x[1] % 2^(16 - k)) * 2^k) + (x[2] \div 2^(16 - k)),
        (x[2] % 2^(16 - k)) * 2^k)

\* x + y on a u32, as a release build computes it
Add32(x, y) ==
    U32((x[1] + y[1] + ((x[2] + y[2]) \div 65536)) % 65536,
        (x[2] + y[2]) % 65536)

(***************************************************************************)
(* nom primitives (streaming): number::streaming::be_u8 / be_u16 / be_u32, *)
(* bytes::streaming::take, bits::bits over bits::streaming::take.          *)
(***************************************************************************)
be_u8(input) ==
    IF Len(input) < 1 THEN Incomplete(1 - Len(input))
    ELSE Done(Drop(input, 1), input[1])

be_u16(input) ==
    IF Len(input) < 2 THEN Incomplete(2 - Len(input))
    ELSE Done(Drop(input, 2), input[1] * 256 + input[2])

be_u32(input) ==
    IF Len(input) < 4 THEN Incomplete(4 - Len(input))
    ELSE Done(Drop(input, 4),
              U32(input[1] * 256 + input[2], input[3] * 256 + input[4]))

\* A variant of take that asks for the whole count when the input is short;
\* IcmpEchoShortfall tells it from the code.
take_whole_count(count, input) ==
    IF Len(input) < count THEN Incomplete(count)
    ELSE Done(Drop(input, count), SubSeq(input, 1, count))

take(count, input) ==
    IF Len(input) < count THEN Incomplete(count - Len(input))
    ELSE Done(Drop(input, count), SubSeq(input, 1, count))

\* bit k (0 = most significant bit of the first byte) of a byte slice
BitAt(bytes, k) == (bytes[(k \div 8) + 1] \div 2^(7 - (k % 8))) % 2

RECURSIVE BitsValue(_, _, _)
BitsValue(bytes, off, count) ==
    IF count = 0 THEN 0
    ELSE 2 * BitsValue(bytes, off, count - 1) + BitAt(bytes, off + count - 1)

\* bits::streaming::take(count) on the bit-level input (bytes, bit offset)
bits_take(count, bi) ==
    IF Len(bi.bytes) * 8 < count + bi.off THEN Incomplete(count)
    ELSE Done([bytes |-> Drop(bi.bytes, (count + bi.off) \div 8),
               off |-> (count + bi.off) % 8],
              BitsValue(bi.bytes, bi.off, count))

BitInput(input) == [bytes |-> input, off |-> 0]

\* bits::bits: back to byte level; a partly read byte is consumed whole
bits_finish(r) ==
    IF r.kind = "Ok"
    THEN Done(Drop(r.rest.bytes,
                   (r.rest.off \div 8) + (IF r.rest.off % 8 = 0 THEN 0 ELSE 1)),
              r.val)
    ELSE IF r.kind = "Incomplete" THEN Incomplete((r.needed \div 8) + 1)
    ELSE r

(***************************************************************************)
(* Enumerated-code lookups                                                 *)
(***************************************************************************)
Named(tag) == [tag |-> tag]

Other(raw) == [tag |-> "Other", raw |-> raw]

\* impl From<u16> for EtherType
EtherTypeFrom(raw) ==
    CASE raw = 46 -> Named("LANMIN")   \* 0x002E
      [] raw = 1500 -> Named("LANMAX")   \* 0x05DC
      [] raw = 2048 -> Named("IPv4")   \* 0x0800
      [] raw = 2054 -> Named("ARP")   \* 0x0806
      [] raw = 2114 -> Named("WOL")   \* 0x0842
      [] raw = 8947 -> Named("TRILL")   \* 0x22F3
      [] raw = 24579 -> Named("DECnet")   \* 0x6003
      [] raw = 32821 -> Named("RARP")   \* 0x8035
      [] raw = 32923 -> Named("AppleTalk")   \* 0x809B
      [] raw = 33011 -> Named("AARP")   \* 0x80F3
      [] raw = 33024 -> Named("VLAN")   \* 0x8100
      [] raw = 33079 -> Named("IPX")   \* 0x8137
      [] raw = 33284 -> Named("Qnet")   \* 0x8204
      [] raw = 34525 -> Named("IPv6")   \* 0x86DD
      [] raw = 34824 -> Named("FlowControl")   \* 0x8808
      [] raw = 34841 -> Named("CobraNet")   \* 0x8819
      [] raw = 34887 -> Named("MPLSuni")   \* 0x8847
      [] raw = 34888 -> Named("MPLSmulti")   \* 0x8848
      [] raw = 34915 -> Named("PPPoEdiscovery")   \* 0x8863
      [] raw = 34916 -> Named("PPPoEsession")   \* 0x8864
      [] raw = 34939 -> Named("HomePlug")   \* 0x887B
      [] raw = 34958 -> Named("EAPOL")   \* 0x888E
      [] raw = 34962 -> Named("PROFINET")   \* 0x8892
      [] raw = 34970 -> Named("HyperSCSI")   \* 0x889A
      [] raw = 34978 -> Named("ATAOE")   \* 0x88A2
      [] raw = 34980 -> Named("EtherCAT")   \* 0x88A4
      [] raw = 34984 -> Named("QinQ")   \* 0x88A8
      [] raw = 34987 -> Named("Powerlink")   \* 0x88AB
      [] raw = 35000 -> Named("GOOSE")   \* 0x88B8
      [] raw = 35001 -> Named("GSE")   \* 0x88B9
      [] raw = 35020 -> Named("LLDP")   \* 0x88CC
      [] raw = 35021 -> Named("SERCOS")   \* 0x88CD
      [] raw = 35041 -> Named("HomePlugAV")   \* 0x88E1
      [] raw = 35043 -> Named("MRP")   \* 0x88E3
      [] raw = 35045 -> Named("MACsec")   \* 0x88E5
      [] raw = 35047 -> Named("PBB")   \* 0x88E7
      [] raw = 35063 -> Named("PTP")   \* 0x88F7
      [] raw = 35067 -> Named("PRP")   \* 0x88FB
      [] raw = 35074 -> Named("CFM")   \* 0x8902
      [] raw = 35078 -> Named("FCoE")   \* 0x8906
      [] raw = 35092 -> Named("FCoEi")   \* 0x8914
      [] raw = 35093 -> Named("RoCE")   \* 0x8915
      [] raw = 35101 -> Named("TTE")   \* 0x891D
      [] raw = 35119 -> Named("HSR")   \* 0x892F
      [] raw = 36864 -> Named("CTP")   \* 0x9000
      [] raw = 37120 -> Named("VLANdouble")   \* 0x9100
      [] OTHER -> Other(raw)

\* ipv4.rs: to_ipv4_protocol (always Some)
to_ipv4_protocol(i) ==
    CASE i = 0 -> Named("HOPOPT")
      [] i = 1 -> Named("ICMP")
      [] i = 2 -> Named("IGMP")
      [] i = 3 -> Named("GGP")
      [] i = 4 -> Named("IPINIP")
      [] i = 5 -> Named("ST")
      [] i = 6 -> Named("TCP")
      [] i = 7 -> Named("CBT")
      [] i = 8 -> Named("EGP")
      [] i = 9 -> Named("IGP")
      [] i = 10 -> Named("BBNRCCMON")
      [] i = 11 -> Named("NVPII")
      [] i = 12 -> Named("PUP")
      [] i = 13 -> Named("ARGUS")
      [] i = 14 -> Named("EMCON")
      [] i = 15 -> Named("XNET")
      [] i = 16 -> Named("CHAOS")
      [] i = 17 -> Named("UDP")
      [] i = 41 -> Named("IPV6")
      [] OTHER -> Other(i)

\* ip.rs: impl From<u8> for IPProtocol
IPProtocolFrom(raw) ==
    CASE raw = 0 -> Named("HOPOPT")
      [] raw = 1 -> Named("ICMP")
      [] raw = 2 -> Named("IGMP")
      [] raw = 3 -> Named("GGP")
      [] raw = 4 -> Named("IPINIP")
      [] raw = 5 -> Named("ST")
      [] raw = 6 -> Named("TCP")
      [] raw = 7 -> Named("CBT")
      [] raw = 8 -> Named("EGP")
      [] raw = 9 -> Named("IGP")
      [] raw = 10 -> Named("BBNRCCMON")
      [] raw = 11 -> Named("NVPII")
      [] raw = 12 -> Named("PUP")
      [] raw = 13 -> Named("ARGUS")
      [] raw = 14 -> Named("EMCON")
      [] raw = 15 -> Named("XNET")
      [] raw = 16 -> Named("CHAOS")
      [] raw = 17 -> Named("UDP")
      [] raw = 41 -> Named("IPV6")
      [] raw = 58 -> Named("ICMP6")
      [] OTHER -> Other(raw)

\* arp.rs
HardwareAddressTypeFrom(raw) ==
    IF raw = 1 THEN Named("Ethernet") ELSE Other(raw)

ProtocolAddressTypeFrom(raw) ==
    IF raw = 2048 THEN Named("IPv4") ELSE Other(raw)

OperationFrom(raw) ==
    CASE raw = 1 -> Named("Request")
      [] raw = 2 -> Named("Reply")
      [] OTHER -> Other(raw)

(***************************************************************************)
(* Sequencing.  A decoder reads its fields one after the other             *)
(* ("let (input, x) = p(input)?;" in the newer files, do_parse! in         *)
(* ipv4.rs): the first field parser that does not succeed ends the decoder *)
(* with that parser's error; otherwise each parser continues on the        *)
(* remainder of the one before.  read(p, input) applies the parser named   *)
(* p; it is defined after the decoders it names.                           *)
(***************************************************************************)
\* "let (input, x) = r?; Ok((input, F(x)))"
Map(r, F(_)) == IF ~IsOk(r) THEN r ELSE Done(r.rest, F(r.val))

\* "let (input, x) = r?; K(input, x)"
AndThen(r, K(_, _)) == IF ~IsOk(r) THEN r ELSE K(r.rest, r.val)

RECURSIVE read(_, _)

RECURSIVE sequence_from(_, _, _)

sequence_step(ps, r, vals) ==
    IF ~IsOk(r) THEN r
    ELSE sequence_from(Tail(ps), r.rest, Append(vals, r.val))

sequence_from(ps, input, vals) ==
    IF ps = <<>> THEN Done(input, vals)
    ELSE sequence_step(ps, read(Head(ps), input), vals)

\* the values of the parsers ps applied in sequence, or the first error
sequence(ps, input) == sequence_from(ps, input, <<>>)

\* the same at bit level: sequence::pair / sequence::tuple of bits takes
RECURSIVE bits_tuple_from(_, _, _)

bits_tuple_step(counts, r, vals) ==
    IF ~IsOk(r) THEN r
    ELSE bits_tuple_from(Tail(counts), r.rest, Append(vals, r.val))

bits_tuple_from(counts, bi, vals) ==
    IF counts = <<>> THEN Done(bi, vals)
    ELSE bits_tuple_step(counts, bits_take(Head(counts), bi), vals)

bits_tuple(counts, input) ==
    bits_finish(bits_tuple_from(counts, BitInput(input), <<>>))

(***************************************************************************)
(* ethernet.rs                                                             *)
(***************************************************************************)
VLAN == Named("VLAN")

MacAddress(bytes) == bytes

mac_address(input) == Map(take(6, input), MacAddress)

parse_ethertype(input) == Map(be_u16(input), EtherTypeFrom)

\* A variant of VidEthertype that keeps only the 12-bit VLAN id of the tag
\* control field; VlanFrameFields tells it from the code.
VidEthertypeMasked(v) == [vid |-> v[1] % 4096, ethertype |-> v[2]]

VidEthertype(v) == [vid |-> v[1], ethertype |-> v[2]]

vid_ethertype(input) ==
    Map(sequence(<<"be_u16", "parse_ethertype">>, input), VidEthertype)

\* A variant of VlanEthernetFrame that takes the addresses in the order of
\* the struct instead of the order on the wire; VlanAgreesWhenUntagged tells
\* it from the code.
VlanEthernetFrameStructOrder(v) ==
    [source_mac |-> v[1], dest_mac |-> v[2], ethertype |-> v[3], vid |-> None]

\* the fields read are dest_mac, source_mac, ethertype, in this order
VlanEthernetFrame(v) ==
    [source_mac |-> v[2], dest_mac |-> v[1], ethertype |-> v[3], vid |-> None]

vlan_ethernet_frame(input) ==
    Map(sequence(<<"mac_address", "mac_address", "parse_ethertype">>, input),
        VlanEthernetFrame)

\* A variant of EthernetFrame that takes the fields in the order of the
\* struct instead of the order on the wire; EthernetFrameFields tells it
\* from the code.
EthernetFrameStructOrder(v) ==
    [source_mac |-> v[1], dest_mac |-> v[2], ethertype |-> v[3]]

EthernetFrame(v) == [source_mac |-> v[2], dest_mac |-> v[1], ethertype |-> v[3]]

parse_ethernet_frame(input) ==
    Map(sequence(<<"mac_address", "mac_address", "parse_ethertype">>, input),
        EthernetFrame)

\* A variant of vlan_tag that returns the untagged frame when the tag is not
\* there yet; PrefixIsIncomplete tells it from the code.
vlan_tag_lenient(frame_content, frame) ==
    IF frame.ethertype = VLAN /\ IsOk(vid_ethertype(frame_content))
    THEN AndThen(vid_ethertype(frame_content),
                 LAMBDA fc, vid_et :
                     Done(fc, [frame EXCEPT !.vid = Some(vid_et.vid),
                                            !.ethertype = vid_et.ethertype]))
    ELSE Done(frame_content, frame)

\* A variant of vlan_tag that goes on unwrapping while the ethertype read is
\* the VLAN marker; VlanUnwrapsOneTag tells it from the code.
RECURSIVE vlan_tag_unwraps_all(_, _)
vlan_tag_unwraps_all(frame_content, frame) ==
    IF frame.ethertype = VLAN
    THEN AndThen(vid_ethertype(frame_content),
                 LAMBDA fc, vid_et :
                     vlan_tag_unwraps_all(
                         fc, [frame EXCEPT !.vid = Some(vid_et.vid),
                                           !.ethertype = vid_et.ethertype]))
    ELSE Done(frame_content, frame)

\* the body of parse_vlan_ethernet_frame after vlan_ethernet_frame(i)?
vlan_tag(frame_content, frame) ==
    IF frame.ethertype = VLAN
    THEN AndThen(vid_ethertype(frame_content),
                 LAMBDA fc, vid_et :
                     Done(fc, [frame EXCEPT !.vid = Some(vid_et.vid),
                                            !.ethertype = vid_et.ethertype]))
    ELSE Done(frame_content, frame)

parse_vlan_ethernet_frame(i) == AndThen(vlan_ethernet_frame(i), vlan_tag)

(***************************************************************************)
(* udp.rs                                                                  *)
(***************************************************************************)
\* A variant of UdpHeader with checksum and length taken in the other
\* order; UdpHeaderFields tells it from the code.
UdpHeaderChecksumFirst(v) ==
    [source_port |-> v[1], dest_port |-> v[2], length |-> v[4],
     checksum |-> v[3]]

UdpHeader(v) ==
    [source_port |-> v[1], dest_port |-> v[2], length |-> v[3],
     checksum |-> v[4]]

parse_udp_header(input) ==
    Map(sequence(<<"be_u16", "be_u16", "be_u16", "be_u16">>, input), UdpHeader)

(***************************************************************************)
(* ipv4.rs                                                                 *)
(***************************************************************************)
\* named!(two_nibbles, bits!(pair!(take_bits!(u8, 4), take_bits!(u8, 4))))
two_nibbles(input) == bits_tuple(<<4, 4>>, input)

\* A variant of flag_frag_offset that splits the 16 bits 4 / 12;
\* Ipv4HeaderFields tells it from the code.
flag_frag_offset_4_12(input) == bits_tuple(<<4, 12>>, input)

\* named!(flag_frag_offset, bits!(pair!(take_bits!(u8, 3), take_bits!(u16, 13))))
flag_frag_offset(input) == bits_tuple(<<3, 13>>, input)

\* named!(protocol, map_opt!(be_u8, to_ipv4_protocol))
protocol(input) == Map(be_u8(input), to_ipv4_protocol)

to_ipv4_address(i) == SubSeq(i, 1, 4)

\* named!(address, map!(take!(4), to_ipv4_address))
address(input) == Map(take(4, input), to_ipv4_address)

\* A variant of IPv4Header that reports the IHL nibble as read;
\* IhlIsHeaderBytes tells it from the code.
IPv4HeaderRawIhl(v) ==
    [version |-> v[1][1],
     ihl |-> v[1][2],
     tos |-> v[2],
     length |-> v[3],
     id |-> v[4],
     flags |-> v[5][1],
     fragment_offset |-> v[5][2],
     ttl |-> v[6],
     protocol |-> v[7],
     chksum |-> v[8],
     source_addr |-> v[9],
     dest_addr |-> v[10]]

\* A variant of IPv4Header that shifts the IHL nibble by 4, past the top of
\* the u8; IhlShiftInRange tells it from the code.
IPv4HeaderIhlShl4(v) ==
    [version |-> v[1][1],
     ihl |-> Shl(v[1][2], 4, 8),
     tos |-> v[2],
     length |-> v[3],
     id |-> v[4],
     flags |-> v[5][1],
     fragment_offset |-> v[5][2],
     ttl |-> v[6],
     protocol |-> v[7],
     chksum |-> v[8],
     source_addr |-> v[9],
     dest_addr |-> v[10]]

\* the record ipparse builds from verihl, tos, length, id, flagfragoffset,
\* ttl, proto, chksum, src_addr, dst_addr
IPv4Header(v) ==
    [version |-> v[1][1],
     ihl |-> Shl(v[1][2], 2, 8),
     tos |-> v[2],
     length |-> v[3],
     id |-> v[4],
     flags |-> v[5][1],
     fragment_offset |-> v[5][2],
     ttl |-> v[6],
     protocol |-> v[7],
     chksum |-> v[8],
     source_addr |-> v[9],
     dest_addr |-> v[10]]

ipparse(input) ==
    Map(sequence(<<"two_nibbles", "be_u8", "be_u16", "be_u16",
                   "flag_frag_offset", "be_u8", "protocol", "be_u16",
                   "address", "address">>, input),
        IPv4Header)

parse_ipv4_header(i) == ipparse(i)

(***************************************************************************)
(* arp.rs                                                                  *)
(***************************************************************************)
parse_hw_addr_type(input) == Map(be_u16(input), HardwareAddressTypeFrom)

parse_proto_addr_type(input) == Map(be_u16(input), ProtocolAddressTypeFrom)

parse_operation(input) == Map(be_u16(input), OperationFrom)

ArpPacket(v) ==
    [hw_addr_type |-> v[1],
     proto_addr_type |-> v[2],
     hw_addr_size |-> v[3],
     proto_addr_size |-> v[4],
     operation |-> v[5],
     src_mac |-> v[6],
     src_addr |-> v[7],
     dest_mac |-> v[8],
     dest_addr |-> v[9]]

\* A variant of parse_arp_pkt that reads addresses of the declared sizes;
\* ArpPacketFields tells it from the code.
parse_arp_pkt_by_sizes(input) ==
    AndThen(
        sequence(<<"parse_hw_addr_type", "parse_proto_addr_type", "be_u8",
                   "be_u8", "parse_operation">>, input),
        LAMBDA r1, h :
            AndThen(take(h[3], r1), LAMBDA r2, sm :
            AndThen(take(h[4], r2), LAMBDA r3, sa :
            AndThen(take(h[3], r3), LAMBDA r4, dm :
            Map(take(h[4], r4), LAMBDA da :
                ArpPacket(h \o <<sm, sa, dm, da>>))))))

parse_arp_pkt(input) ==
    Map(sequence(<<"parse_hw_addr_type", "parse_proto_addr_type", "be_u8",
                   "be_u8", "parse_operation", "mac_address", "address",
                   "mac_address", "address">>, input),
        ArpPacket)

(***************************************************************************)
(* ip.rs, ipv6.rs                                                          *)
(***************************************************************************)
\* ip::two_nibbles: bits(pair(take(4), take(4)))
ip_two_nibbles(input) == bits_tuple(<<4, 4>>, input)

\* ip::protocol
ip_protocol(input) == Map(be_u8(input), IPProtocolFrom)

Ipv6Addr(bytes) == bytes

\* ipv6::address
ipv6_address(input) == Map(take(16, input), Ipv6Addr)

\* bits(take(16u8)) read into a u32
bits16_u32(input) ==
    Map(bits_tuple(<<16>>, input), LAMBDA v : U32From(v[1]))

\* A variant of IPv6Header that adds the two high bits of the second byte
\* without shifting them down; Ipv6HeaderFields tells it from the code.
IPv6HeaderUnshifted(v) ==
    [version |-> v[1][1],
     ds |-> AddW(Shl(v[1][2], 2, 8), BitAnd(v[2][1], 12), 8),
     ecn |-> BitAnd(v[2][1], 3),
     flow_label |-> Add32(Shl32(U32From(v[2][2]), 16), v[3]),
     length |-> v[4],
     next_header |-> v[5],
     hop_limit |-> v[6],
     source_addr |-> v[7],
     dest_addr |-> v[8]]

\* the record parse_ipv6_header builds from ver_tc, tc_fl, fl, length,
\* next_header, hop_limit, source_addr, dest_addr
IPv6Header(v) ==
    [version |-> v[1][1],
     ds |-> AddW(Shl(v[1][2], 2, 8), Shr(BitAnd(v[2][1], 12), 2), 8),
     ecn |-> BitAnd(v[2][1], 3),
     flow_label |-> Add32(Shl32(U32From(v[2][2]), 16), v[3]),
     length |-> v[4],
     next_header |-> v[5],
     hop_limit |-> v[6],
     source_addr |-> v[7],
     dest_addr |-> v[8]]

parse_ipv6_header(input) ==
    Map(sequence(<<"ip_two_nibbles", "ip_two_nibbles", "bits16_u32",
                   "be_u16", "ip_protocol", "be_u8", "ipv6_address",
                   "ipv6_address">>, input),
        IPv6Header)

(***************************************************************************)
(* icmp.rs                                                                 *)
(***************************************************************************)
Sub(tag, sub) == [tag |-> tag, sub |-> sub]

UnreachableNames ==
    << "DestinationNetworkUnreachable", "DestinationHostUnreachable",
       "DestinationProtocolUnreachable", "DestinationPortUnreachable",
       "FragmentationRequired", "SourceRouteFailed",
       "DestinationNetworkUnknown", "DestinationHostUnknown",
       "SourceHostIsolated", "NetworkAdministrativelyProhibited",
       "HostAdministrativelyProhibited", "NetworkUnreachableForTos",
       "HostUnreachableForTos", "CommunicationAdministrativelyProhibited",
       "HostPrecedenceViolation", "PrecedentCutoffInEffect" >>

RedirectNames == << "Network", "Host", "TosAndNetwork", "TosAndHost" >>

TimeExceededNames == << "TTL", "FragmentReassembly" >>

ParameterProblemNames == << "Pointer", "MissingRequiredOption", "BadLength" >>

ExtendedEchoReplyNames ==
    << "NoError", "MalformedQuery", "NoSuchInterface", "NoSuchTableEntry",
       "MupltipleInterfacesStatisfyQuery" >>

\* A variant of MatchCode whose catch-all keeps the code byte only;
\* LookupsTotal tells it from the code.
MatchCodeKeepsCodeByte(tag, names, c, raw) ==
    IF c < Len(names) THEN Sub(tag, names[c + 1]) ELSE Other(c)

\* one "match c { 0x00 => .., .., _ => Self::Other(raw) }" of IcmpCode::from:
\* the codes 0 .. Len(names) - 1 are named, in order
MatchCode(tag, names, c, raw) ==
    IF c < Len(names) THEN Sub(tag, names[c + 1]) ELSE Other(raw)

\* impl From<u16> for IcmpCode
IcmpCodeFrom(raw) ==
    LET t == raw \div 256
        c == raw % 256
    IN
    CASE t = 0 -> Named("EchoReply")
      [] t = 1 -> Named("Reserved")
      [] t = 2 -> Named("Reserved")
      [] t = 3 -> MatchCode("DestinationUnreachable", UnreachableNames, c, raw)
      [] t = 4 -> IF c = 0 THEN Named("SourceQuench") ELSE Other(raw)
      [] t = 5 -> MatchCode("Redirect", RedirectNames, c, raw)
      [] t = 7 -> Named("Reserved")
      [] t = 8 -> Named("EchoRequest")
      [] t = 9 -> Named("RouterAdvertisment")
      [] t = 10 -> Named("RouterSolicication")
      [] t = 11 -> MatchCode("TimeExceeded", TimeExceededNames, c, raw)
      [] t = 12 -> MatchCode("ParameterProblem", ParameterProblemNames, c, raw)
      [] t = 13 -> Named("Timestamp")
      [] t = 14 -> Named("TimestampReply")
      [] t = 42 -> Named("ExtendedEchoRequest")
      [] t = 43 -> MatchCode("ExtendedEchoReply", ExtendedEchoReplyNames, c, raw)
      [] OTHER -> Other(raw)

parse_icmp_code(input) == Map(be_u16(input), IcmpCodeFrom)

IcmpPayloadPacket(bytes) == bytes

\* A variant of parse_ipv4_header_and_packet that skips the options the
\* embedded header declares (ihl - 20 bytes) before the 8 bytes of payload;
\* IcmpPayloadLayout tells it from the code.
parse_ipv4_header_skip_options_and_packet(input) ==
    AndThen(parse_ipv4_header(input),
            LAMBDA rest, header :
                Map(take(8, Drop(rest, header.ihl - 20)),
                    LAMBDA bytes : <<header, IcmpPayloadPacket(bytes)>>))

parse_ipv4_header_and_packet(input) ==
    Map(sequence(<<"parse_ipv4_header", "take_8">>, input),
        LAMBDA v : <<v[1], IcmpPayloadPacket(v[2])>>)

parse_icmp_unreachable_data(input) ==
    Map(sequence(<<"be_u16", "be_u16", "parse_ipv4_header_and_packet">>, input),
        LAMBDA v : [tag |-> "Unreachable", nexthop_mtu |-> v[2],
                    header |-> v[3][1], packet |-> v[3][2]])

parse_icmp_redirect_data(input) ==
    Map(sequence(<<"address", "parse_ipv4_header_and_packet">>, input),
        LAMBDA v : [tag |-> "Redirect", gateway |-> v[1],
                    header |-> v[2][1], packet |-> v[2][2]])

parse_icmp_timeexceeded_data(input) ==
    Map(sequence(<<"be_u32", "parse_ipv4_header_and_packet">>, input),
        LAMBDA v : [tag |-> "TimeExceeded",
                    header |-> v[2][1], packet |-> v[2][2]])

\* A variant of icmp_data that routes by the type byte kept in Other(raw);
\* IcmpDataMatchesCode tells it from the code.
icmp_data_by_type(code, input) ==
    CASE code.tag = "DestinationUnreachable" -> parse_icmp_unreachable_data(input)
      [] code.tag = "Redirect" -> parse_icmp_redirect_data(input)
      [] code.tag = "TimeExceeded" -> parse_icmp_timeexceeded_data(input)
      [] code.tag = "Other" /\ code.raw \div 256 = 3 ->
            parse_icmp_unreachable_data(input)
      [] OTHER -> Done(input, [tag |-> "None"])

\* the match on the decoded code in parse_icmp_header
icmp_data(code, input) ==
    CASE code.tag = "DestinationUnreachable" -> parse_icmp_unreachable_data(input)
      [] code.tag = "Redirect" -> parse_icmp_redirect_data(input)
      [] code.tag = "TimeExceeded" -> parse_icmp_timeexceeded_data(input)
      [] OTHER -> Done(input, [tag |-> "None"])

\* the body of parse_icmp_header after the code and the checksum are read
icmp_header_data(input, v) ==
    Map(icmp_data(v[1], input),
        LAMBDA data : [code |-> v[1], checksum |-> v[2], data |-> data])

parse_icmp_header(input) ==
    AndThen(sequence(<<"parse_icmp_code", "be_u16">>, input), icmp_header_data)

(***************************************************************************)
(* tcp.rs                                                                  *)
(***************************************************************************)
END_OF_OPTIONS == 0
NO_OP == 1
MSS == 2
WINDOW_SCALE == 3
SACK_PERMITTED == 4

EndOfOptions == [tag |-> "EndOfOptions"]

NoOperation == [tag |-> "NoOperation"]

MaximumSegmentSize(mss) == [tag |-> "MaximumSegmentSize", mss |-> mss]

WindowScale(scaling) == [tag |-> "WindowScale", scaling |-> scaling]

SackPermitted == [tag |-> "SackPermitted"]

\* A variant of dataof_res_flags that splits the 16 bits as 4, 4 and 8;
\* TcpFixedHeaderFields tells it from the code.
dataof_res_flags_4_4_8(input) == bits_tuple(<<4, 4, 8>>, input)

\* bits(tuple((take(4), take(6), take(6))))
dataof_res_flags(input) == bits_tuple(<<4, 6, 6>>, input)

\* the record tcp_parse builds from source_port, dest_port, sequence_no,
\* ack_no, dataof_res_flags, window, checksum, urgent_pointer
TcpHeader(v) ==
    [source_port |-> v[1],
     dest_port |-> v[2],
     sequence_no |-> v[3],
     ack_no |-> v[4],
     data_offset |-> v[5][1],
     reserved |-> v[5][2],
     flag_urg |-> BitAnd(v[5][3], 32) = 32,
     flag_ack |-> BitAnd(v[5][3], 16) = 16,
     flag_psh |-> BitAnd(v[5][3], 8) = 8,
     flag_rst |-> BitAnd(v[5][3], 4) = 4,
     flag_syn |-> BitAnd(v[5][3], 2) = 2,
     flag_fin |-> BitAnd(v[5][3], 1) = 1,
     window |-> v[6],
     checksum |-> v[7],
     urgent_pointer |-> v[8],
     options |-> None]

tcp_parse(input) ==
    Map(sequence(<<"be_u16", "be_u16", "be_u32", "be_u32",
                   "dataof_res_flags", "be_u16", "be_u16", "be_u16">>, input),
        TcpHeader)

\* A variant of tcp_option_of_tag in which SackPermitted is one byte wide,
\* as NoOperation is; TcpOptionChain tells it from the code.
tcp_option_of_tag_sack_1(input, tag) ==
    CASE tag = END_OF_OPTIONS -> Done(input, EndOfOptions)
      [] tag = NO_OP -> Done(input, NoOperation)
      [] tag = MSS ->
            Map(sequence(<<"be_u8", "be_u16">>, input),
                LAMBDA v : MaximumSegmentSize(v[2]))
      [] tag = WINDOW_SCALE ->
            Map(sequence(<<"be_u8", "be_u8">>, input),
                LAMBDA v : WindowScale(v[2]))
      [] tag = SACK_PERMITTED -> Done(input, SackPermitted)
      [] OTHER -> Failure

\* the match of tcp_parse_option on the tag byte read
tcp_option_of_tag(input, tag) ==
    CASE tag = END_OF_OPTIONS -> Done(input, EndOfOptions)
      [] tag = NO_OP -> Done(input, NoOperation)
      [] tag = MSS ->
            Map(sequence(<<"be_u8", "be_u16">>, input),
                LAMBDA v : MaximumSegmentSize(v[2]))
      [] tag = WINDOW_SCALE ->
            Map(sequence(<<"be_u8", "be_u8">>, input),
                LAMBDA v : WindowScale(v[2]))
      [] tag = SACK_PERMITTED ->
            Map(sequence(<<"be_u8">>, input), LAMBDA v : SackPermitted)
      [] OTHER -> Failure

tcp_parse_option(input) == AndThen(be_u8(input), tcp_option_of_tag)

\* the loop of tcp_parse_options, from the state (left, options)
RECURSIVE tcp_parse_options_loop(_, _)

\* A variant of tcp_parse_options_match that returns the options collected
\* so far when an option fails; OptionsListWhole tells it from the code.
tcp_parse_options_match_keeps_partial(r, options) ==
    IF ~IsOk(r) THEN Done(<<>>, options)
    ELSE IF r.val = EndOfOptions
         THEN Done(r.rest, Append(options, r.val))
         ELSE tcp_parse_options_loop(r.rest, Append(options, r.val))

\* one iteration: the match on tcp_parse_option(left)
tcp_parse_options_match(r, options) ==
    IF ~IsOk(r) THEN r
    ELSE IF r.val = EndOfOptions
         THEN Done(r.rest, Append(options, r.val))
         ELSE tcp_parse_options_loop(r.rest, Append(options, r.val))

tcp_parse_options_loop(left, options) ==
    tcp_parse_options_match(tcp_parse_option(left), options)

tcp_parse_options(i) == tcp_parse_options_loop(i, <<>>)

\* "if let Ok((_, options)) = tcp_parse_options(..)" and the two returns
tcp_with_options(left, tcp_header, options_length, o) ==
    IF IsOk(o)
    THEN Done(Drop(left, options_length),
              [tcp_header EXCEPT !.options = Some(o.val)])
    ELSE Done(Drop(left, options_length), tcp_header)

\* A variant of OptionsLength that counts the words of the whole header;
\* TcpOptionsShortfall tells it from the code.
OptionsLengthOfHeader(data_offset) == (data_offset * 4) % 256

\* ((tcp_header.data_offset - 5) * 4) as usize, computed in u8
OptionsLength(data_offset) == ((data_offset - 5) * 4) % 256

\* A variant of tcp_header_options that rejects a header whose option span
\* has not arrived whole; StreamingRetry tells it from the code.
tcp_header_options_rejects_short(left, tcp_header) ==
    IF tcp_header.data_offset > 5
    THEN IF OptionsLength(tcp_header.data_offset) <= Len(left)
         THEN tcp_with_options(
                  left, tcp_header, OptionsLength(tcp_header.data_offset),
                  tcp_parse_options(
                      SubSeq(left, 1, OptionsLength(tcp_header.data_offset))))
         ELSE Failure
    ELSE Done(left, tcp_header)

\* A variant of tcp_header_options that parses the options from all the
\* bytes left, past the end of the option span; ConsumedBytesDecide tells it
\* from the code.
tcp_header_options_past_span(left, tcp_header) ==
    IF tcp_header.data_offset > 5
    THEN IF OptionsLength(tcp_header.data_offset) <= Len(left)
         THEN tcp_with_options(
                  left, tcp_header, OptionsLength(tcp_header.data_offset),
                  tcp_parse_options(left))
         ELSE Incomplete(OptionsLength(tcp_header.data_offset) - Len(left))
    ELSE Done(left, tcp_header)

\* the Ok arm of parse_tcp_header
tcp_header_options(left, tcp_header) ==
    IF tcp_header.data_offset > 5
    THEN IF OptionsLength(tcp_header.data_offset) <= Len(left)
         THEN tcp_with_options(
                  left, tcp_header, OptionsLength(tcp_header.data_offset),
                  tcp_parse_options(
                      SubSeq(left, 1, OptionsLength(tcp_header.data_offset))))
         ELSE Incomplete(OptionsLength(tcp_header.data_offset) - Len(left))
    ELSE Done(left, tcp_header)

parse_tcp_header(i) == AndThen(tcp_parse(i), tcp_header_options)

(***************************************************************************)
(* The field parsers by name                                               *)
(***************************************************************************)
read(p, input) ==
    CASE p = "be_u8" -> be_u8(input)
      [] p = "be_u16" -> be_u16(input)
      [] p = "be_u32" -> be_u32(input)
      [] p = "take_8" -> take(8, input)
      [] p = "mac_address" -> mac_address(input)
      [] p = "parse_ethertype" -> parse_ethertype(input)
      [] p = "two_nibbles" -> two_nibbles(input)
      [] p = "flag_frag_offset" -> flag_frag_offset(input)
      [] p = "protocol" -> protocol(input)
      [] p = "address" -> address(input)
      [] p = "parse_hw_addr_type" -> parse_hw_addr_type(input)
      [] p = "parse_proto_addr_type" -> parse_proto_addr_type(input)
      [] p = "parse_operation" -> parse_operation(input)
      [] p = "ip_two_nibbles" -> ip_two_nibbles(input)
      [] p = "bits16_u32" -> bits16_u32(input)
      [] p = "ip_protocol" -> ip_protocol(input)
      [] p = "ipv6_address" -> ipv6_address(input)
      [] p = "parse_ipv4_header" -> parse_ipv4_header(input)
      [] p = "parse_ipv4_header_and_packet" -> parse_ipv4_header_and_packet(input)
      [] p = "parse_icmp_code" -> parse_icmp_code(input)
      [] p = "dataof_res_flags" -> dataof_res_flags(input)

(***************************************************************************)
(* The capture source: the packets that arrive on the wire.  Field values  *)
(* are drawn from small sets; the other bytes are those of the test        *)
(* vectors of the repository.                                              *)
(***************************************************************************)
U16Bytes(v) == <<v \div 256, v % 256>>

\* payload bytes that follow a header on the wire
TailBytes == [i \in 1..MaxTail |-> (i * 37 + 71) % 256]

DestMac == <<0, 35, 84, 7, 147, 108>>

SourceMac == <<0, 27, 33, 15, 145, 155>>

\* IPv4, ARP, VLAN, IPv6, VLANdouble, an unassigned code
EtherCodes == {2048, 2054, 33024, 34525, 37120, 4660}

\* 802.1Q tag control fields: VID 1234; VID 1234 with priority 7; zero
TagControls == {1234, 58578, 0}

EthernetWire(et) == DestMac \o SourceMac \o U16Bytes(et) \o TailBytes

VlanWire(tci, et) ==
    DestMac \o SourceMac \o U16Bytes(33024) \o U16Bytes(tci) \o U16Bytes(et)
        \o TailBytes

\* version/IHL bytes 0x45, 0x46, 0x4F, 0x60
VerIhlBytes == {69, 70, 79, 96}

\* flags/fragment-offset fields 0x2000, 0xFFFF, 0x5FFE
FlagFragFields == {8192, 65535, 24574}

ProtocolBytes == {1, 6, 41, 58}

Ipv4Wire(b0, ff, proto) ==
    <<b0, 0, 5, 220, 26, 230>> \o U16Bytes(ff) \o <<64, proto, 34, 237>>
        \o <<10, 10, 1, 135>> \o <<10, 10, 1, 180>> \o TailBytes

\* first bytes 0x60, 0x6F, 0xFF; second bytes 0x20, 0xFF, 0x0C, 0x30
Ipv6FirstBytes == {96, 111, 255}

Ipv6SecondBytes == {32, 255, 12, 48}

Ipv6FlowLow == {511, 65535}

Ipv6Wire(b0, b1, fl) ==
    <<b0, b1>> \o U16Bytes(fl) \o <<5, 120, 58, 5>>
        \o <<32, 1, 13, 184, 92, 248, 26, 168, 36, 129, 97, 230, 90, 198, 3, 224>>
        \o <<32, 1, 13, 184, 120, 144, 42, 233, 144, 143, 169, 244, 47, 74, 155, 128>>
        \o TailBytes

\* Destination Unreachable, Redirect, Time Exceeded, Echo Request
IcmpTypes == {3, 5, 11, 8}

IcmpCodes == (0..MaxCode) \cup {255}

IcmpWire(t, c) ==
    <<t, c, 170, 187, 10, 10, 1, 134>>
        \o <<69, 0, 5, 220, 26, 230, 32, 0, 64, 1, 34, 237>>
        \o <<10, 10, 1, 135>> \o <<10, 10, 1, 180>>
        \o <<1, 2, 3, 4, 5, 6, 7, 8>> \o TailBytes

\* an ICMP message of code 1 whose embedded IPv4 header declares IHL 15
\* (first byte 0x4F) and whose bytes 6..7 are 1500
IcmpWireIhl15(t) ==
    <<t, 1, 170, 187, 10, 10, 5, 220>>
        \o <<79, 0, 5, 220, 26, 230, 32, 0, 64, 1, 34, 237>>
        \o <<10, 10, 1, 135>> \o <<10, 10, 1, 180>>
        \o <<1, 2, 3, 4, 5, 6, 7, 8>> \o TailBytes

\* TCP options as they appear on the wire: End of Options, No-Operation,
\* MSS 1338, Window Scale 4 (with a length byte of 9), SACK Permitted,
\* Timestamps (tag 8, not decoded), an MSS option cut after its length byte
OptItems == { <<0>>, <<1>>, <<2, 4, 5, 58>>, <<3, 9, 4>>, <<4, 2>>,
              <<8, 10>>, <<2, 4>> }

OptLists == UNION { [1..n -> OptItems] : n \in 0..MaxOpts }

RECURSIVE Flatten(_)
Flatten(ss) == IF ss = <<>> THEN <<>> ELSE Head(ss) \o Flatten(Tail(ss))

\* an option span is a whole number of 32-bit words: zero bytes pad it
PadTo4(s) == s \o [i \in 1..((4 - (Len(s) % 4)) % 4) |-> 0]

\* byte 12 (data offset, top of reserved) and byte 13 (reserved, flags)
TcpFixed(b12, b13) ==
    <<194, 31, 0, 80, 15, 216, 127, 76, 235, 47, 5, 200, b12, b13, 1, 0,
      124, 41, 0, 0>>

TcpWire(items) ==
    LET span == PadTo4(Flatten(items)) IN
    TcpFixed((5 + (Len(span) \div 4)) * 16, 18) \o span \o TailBytes

\* bytes 12 of headers without options: 0x50, 0x5F, 0x00, 0x30, 0xF0
PlainOffsetBytes == {80, 95, 0, 48, 240}

PlainFlagBytes == {24, 255}

\* tests/tcp_packet.rs: parse_tcp_packet_with_options, after the IPv4 header
TcpOptionsFixture ==
    <<0, 80, 194, 39, 72, 243, 2, 194, 97, 211, 22, 168, 128, 18, 255, 255,
      155, 128, 0, 0, 2, 4, 5, 58, 1, 3, 3, 4, 4, 2, 0, 0>>

UdpWire == <<0, 18, 17, 17, 0, 27, 33, 15>> \o TailBytes

ArpSizes == {<<6, 4>>, <<8, 16>>}

ArpOperations == {1, 2, 3}

ArpWire(sizes, op) ==
    <<0, 1, 8, 0>> \o sizes \o U16Bytes(op)
        \o <<0, 27, 33, 15, 145, 155>> \o <<10, 10, 1, 135>>
        \o <<222, 173, 192, 0, 255, 238>> \o <<192, 168, 1, 253>> \o TailBytes

(***************************************************************************)
(* The caller                                                              *)
(***************************************************************************)
Idle == [kind |-> "Idle"]

\* the bytes received so far: the slice the caller hands to a decoder
Buffer == SubSeq(wire, 1, avail)

Init ==
    /\ wire = <<>>
    /\ avail = 0
    /\ decoder = "none"
    /\ outcome = Idle

\* a packet is captured: none of its bytes has arrived yet
Capture(w) ==
    /\ wire' = w
    /\ avail' = 0
    /\ decoder' = "none"
    /\ outcome' = Idle

CaptureEthernet ==
    \E et \in EtherCodes : wire = <<>> /\ Capture(EthernetWire(et))

CaptureVlan ==
    \E tci \in TagControls, et \in EtherCodes :
        wire = <<>> /\ Capture(VlanWire(tci, et))

CaptureIpv4 ==
    \E b0 \in VerIhlBytes, ff \in FlagFragFields, p \in ProtocolBytes :
        wire = <<>> /\ Capture(Ipv4Wire(b0, ff, p))

CaptureIpv6 ==
    \E b0 \in Ipv6FirstBytes, b1 \in Ipv6SecondBytes, fl \in Ipv6FlowLow :
        wire = <<>> /\ Capture(Ipv6Wire(b0, b1, fl))

CaptureIcmp ==
    \E t \in IcmpTypes, c \in IcmpCodes : wire = <<>> /\ Capture(IcmpWire(t, c))

CaptureIcmpIhl15 ==
    \E t \in IcmpTypes : wire = <<>> /\ Capture(IcmpWireIhl15(t))

CaptureTcp ==
    \E items \in OptLists : wire = <<>> /\ Capture(TcpWire(items))

CaptureTcpPlain ==
    \E b12 \in PlainOffsetBytes, b13 \in PlainFlagBytes :
        wire = <<>> /\ Capture(TcpFixed(b12, b13) \o TailBytes)

CaptureTcpFixture == wire = <<>> /\ Capture(TcpOptionsFixture \o TailBytes)

CaptureUdp == wire = <<>> /\ Capture(UdpWire)

CaptureArp ==
    \E s \in ArpSizes, op \in ArpOperations :
        wire = <<>> /\ Capture(ArpWire(s, op))

\* the next chunk of the packet arrives
Receive ==
    \E k \in 1..MaxChunk :
        /\ avail + k <= Len(wire)
        /\ avail' = avail + k
        /\ decoder' = "none"
        /\ outcome' = Idle
        /\ UNCHANGED wire

\* the caller applies a decoder to the bytes received so far (once: the
\* decoders are pure, a second call on the same bytes returns the same)
DecodeEthernet ==
    /\ outcome = Idle
    /\ decoder' = "ethernet"
    /\ outcome' = parse_ethernet_frame(Buffer)
    /\ UNCHANGED <<wire, avail>>

DecodeVlan ==
    /\ outcome = Idle
    /\ decoder' = "vlan"
    /\ outcome' = parse_vlan_ethernet_frame(Buffer)
    /\ UNCHANGED <<wire, avail>>

DecodeArp ==
    /\ outcome = Idle
    /\ decoder' = "arp"
    /\ outcome' = parse_arp_pkt(Buffer)
    /\ UNCHANGED <<wire, avail>>

DecodeIpv4 ==
    /\ outcome = Idle
    /\ decoder' = "ipv4"
    /\ outcome' = parse_ipv4_header(Buffer)
    /\ UNCHANGED <<wire, avail>>

DecodeIpv6 ==
    /\ outcome = Idle
    /\ decoder' = "ipv6"
    /\ outcome' = parse_ipv6_header(Buffer)
    /\ UNCHANGED <<wire, avail>>

DecodeIcmp ==
    /\ outcome = Idle
    /\ decoder' = "icmp"
    /\ outcome' = parse_icmp_header(Buffer)
    /\ UNCHANGED <<wire, avail>>

DecodeTcp ==
    /\ outcome = Idle
    /\ decoder' = "tcp"
    /\ outcome' = parse_tcp_header(Buffer)
    /\ UNCHANGED <<wire, avail>>

DecodeUdp ==
    /\ outcome = Idle
    /\ decoder' = "udp"
    /\ outcome' = parse_udp_header(Buffer)
    /\ UNCHANGED <<wire, avail>>

\* the caller is done with the packet
Discard ==
    /\ wire # <<>>
    /\ wire' = <<>>
    /\ avail' = 0
    /\ decoder' = "none"
    /\ outcome' = Idle

Next ==
    \/ CaptureEthernet \/ CaptureVlan \/ CaptureIpv4 \/ CaptureIpv6
    \/ CaptureIcmp \/ CaptureIcmpIhl15
    \/ CaptureTcp \/ CaptureTcpPlain \/ CaptureTcpFixture
    \/ CaptureUdp \/ CaptureArp
    \/ Receive
    \/ DecodeEthernet \/ DecodeVlan \/ DecodeArp \/ DecodeIpv4 \/ DecodeIpv6
    \/ DecodeIcmp \/ DecodeTcp \/ DecodeUdp
    \/ Discard

Spec == Init /\ [][Next]_vars

Decoders == {"ethernet", "vlan", "arp", "ipv4", "ipv6", "icmp", "tcp", "udp"}

TypeOK ==
    /\ avail \in 0..Len(wire)
    /\ decoder \in Decoders \cup {"none"}
    /\ outcome.kind \in {"Idle", "Ok", "Incomplete", "Failure"}
    /\ \A i \in 1..Len(wire) : wire[i] \in 0..255

(***************************************************************************)
(* Properties                                                              *)
(***************************************************************************)
\* the decoder named d applied to a slice
Run(d, input) ==
    CASE d = "ethernet" -> parse_ethernet_frame(input)
      [] d = "vlan" -> parse_vlan_ethernet_frame(input)
      [] d = "arp" -> parse_arp_pkt(input)
      [] d = "ipv4" -> parse_ipv4_header(input)
      [] d = "ipv6" -> parse_ipv6_header(input)
      [] d = "icmp" -> parse_icmp_header(input)
      [] d = "tcp" -> parse_tcp_header(input)
      [] d = "udp" -> parse_udp_header(input)

\* the big-endian 16-bit value of the bytes at offsets i, i + 1 (from 0) of s
BE16(s, i) == s[i + 1] * 256 + s[i + 2]

\* the bytes at offsets [a, b) of s
Slice(s, a, b) == SubSeq(s, a + 1, b)

\* the data offset nibble of a TCP header held in s
DataOffsetOf(s) == s[13] \div 16

\* the option span of a TCP header held in s, when all of it is there
OptionSpan(s) == Slice(s, 20, 4 * DataOffsetOf(s))

(***************************************************************************)
(* C1                                                                      *)
(***************************************************************************)
\* C1: when a decoder succeeds on the whole packet consuming n bytes, the
\* same decoder applied to a proper prefix of those n bytes (the first avail
\* bytes, avail < n) returns Incomplete, never Failure and never Ok.
PrefixIsIncomplete ==
    (/\ decoder \in Decoders
     /\ IsOk(Run(decoder, wire))
     /\ avail < Len(wire) - Len(Run(decoder, wire).rest))
    => outcome.kind = "Incomplete"

\* the TCP decoder has been applied to a header cut inside its option span
TcpCutInsideOptions ==
    /\ decoder = "tcp"
    /\ avail >= 20
    /\ IsOk(Run("tcp", wire))
    /\ avail < Len(wire) - Len(Run("tcp", wire).rest)
    /\ outcome.kind = "Incomplete"

(***************************************************************************)
(* C2                                                                      *)
(***************************************************************************)
\* the bytes an option with a known tag occupies
OptionWidth(tag) ==
    CASE tag = 0 -> 1
      [] tag = 1 -> 1
      [] tag = 2 -> 4
      [] tag = 3 -> 3
      [] tag = 4 -> 2

\* walking the span option by option, a tag outside 0..4 is met before any 0
RECURSIVE UnknownTagBeforeEnd(_)
UnknownTagBeforeEnd(span) ==
    IF span = <<>> \/ span[1] = 0 THEN FALSE
    ELSE IF span[1] \notin 1..4 THEN TRUE
    ELSE UnknownTagBeforeEnd(Drop(span, OptionWidth(span[1])))

\* C2: when a TCP header has data_offset > 5, its whole option span is
\* there and the span holds a tag outside 0..4 before any EndOfOptions,
\* parse_tcp_header returns Failure to its caller (no TcpHeader comes back).
UnknownOptionTagIsFailure ==
    (/\ decoder = "tcp"
     /\ avail >= 20
     /\ DataOffsetOf(Buffer) > 5
     /\ avail >= 4 * DataOffsetOf(Buffer)
     /\ UnknownTagBeforeEnd(OptionSpan(Buffer)))
    => outcome.kind = "Failure"

(***************************************************************************)
(* C3                                                                      *)
(***************************************************************************)
\* the payload variant that belongs to an ICMP type byte
DataOfType(type) ==
    CASE type = 3 -> "Unreachable"
      [] type = 5 -> "Redirect"
      [] type = 11 -> "TimeExceeded"
      [] OTHER -> "None"

\* C3: the payload branch of parse_icmp_header follows the type byte alone:
\* whatever the code byte is, a decode of type 3 (5, 11) that succeeds
\* returns the Unreachable (Redirect, TimeExceeded) variant.
IcmpBranchByTypeAlone ==
    (/\ decoder = "icmp"
     /\ IsOk(outcome)
     /\ Buffer[1] \in {3, 5, 11})
    => outcome.val.data.tag = DataOfType(Buffer[1])

(***************************************************************************)
(* C4                                                                      *)
(***************************************************************************)
\* C4 (as the code has it): when parse_ipv4_header succeeds, ihl is 4 times
\* the low nibble of byte 0: the header length in bytes (20 for 0x45, at
\* most 60), not the 4-bit word count.
IhlIsHeaderBytes ==
    (decoder = "ipv4" /\ IsOk(outcome))
    => /\ outcome.val.ihl = 4 * (Buffer[1] % 16)
       /\ outcome.val.ihl <= 60

\* C4 (as stated): when parse_ipv4_header succeeds, ihl is the low nibble
\* of byte 0, the raw word count in 0..15 (5 for 0x45).
IhlIsRawNibble ==
    (decoder = "ipv4" /\ IsOk(outcome))
    => outcome.val.ihl = Buffer[1] % 16

\* a header whose first byte is 0x45 has been decoded: ihl is 20
Ihl20For0x45 ==
    /\ decoder = "ipv4"
    /\ IsOk(outcome)
    /\ Buffer[1] = 69
    /\ outcome.val.ihl = 20

(***************************************************************************)
(* C5                                                                      *)
(***************************************************************************)
\* C5: on at least 20 bytes parse_ipv4_header succeeds and consumes exactly
\* 20 bytes whatever the version and IHL nibbles are, with version the high
\* nibble of byte 0, tos byte 1, length, id and chksum the big-endian values
\* of bytes 2..3, 4..5 and 10..11, flags the top 3 bits of byte 6,
\* fragment_offset the low 13 bits of bytes 6..7, ttl byte 8, protocol the
\* lookup of byte 9, source_addr bytes 12..15 and dest_addr bytes 16..19.
Ipv4HeaderFields ==
    (decoder = "ipv4" /\ avail >= 20)
    => /\ outcome.kind = "Ok"
       /\ outcome.rest = Drop(Buffer, 20)
       /\ outcome.val.version = Buffer[1] \div 16
       /\ outcome.val.tos = Buffer[2]
       /\ outcome.val.length = BE16(Buffer, 2)
       /\ outcome.val.id = BE16(Buffer, 4)
       /\ outcome.val.flags = Buffer[7] \div 32
       /\ outcome.val.fragment_offset = BE16(Buffer, 6) % 8192
       /\ outcome.val.ttl = Buffer[9]
       /\ outcome.val.protocol = to_ipv4_protocol(Buffer[10])
       /\ outcome.val.chksum = BE16(Buffer, 10)
       /\ outcome.val.source_addr = Slice(Buffer, 12, 16)
       /\ outcome.val.dest_addr = Slice(Buffer, 16, 20)

\* a header of version 4 with IHL 15 and fragment bits 0x5FFE was decoded
\* with bytes left over: they are the remainder, from byte 20 on
Ipv4Ihl15Decoded ==
    /\ decoder = "ipv4"
    /\ avail > 20
    /\ Buffer[1] = 79
    /\ BE16(Buffer, 6) = 24574
    /\ IsOk(outcome)
    /\ outcome.val.flags = 2
    /\ outcome.val.fragment_offset = 8190
    /\ outcome.rest = Drop(Buffer, 20)

(***************************************************************************)
(* C6                                                                      *)
(***************************************************************************)
RECURSIVE BitOr(_, _)
BitOr(a, b) ==
    IF a = 0 THEN b
    ELSE IF b = 0 THEN a
    ELSE (IF a % 2 = 1 \/ b % 2 = 1 THEN 1 ELSE 0)
             + 2 * BitOr(a \div 2, b \div 2)

\* the header IPv6Header builds when the nibbles after the version are
\* n1, n2, n3 and the last 16 bits of the first word are low
Ipv6OfNibbles(n1, n2, n3, low) ==
    IPv6Header(<<<<6, n1>>, <<n2, n3>>, U32From(low), 0, Named("TCP"), 0,
                 <<>>, <<>>>>)

\* for all nibble values the sums of the code are the ORs of the rule and
\* stay inside u8 and u32: ds <= 63, ecn <= 3, flow_label < 2^20
Ipv6SumsAreOrs ==
    \A n1 \in 0..15, n2 \in 0..15, n3 \in 0..15, low \in {0, 511, 65535} :
        /\ (n1 * 4) + (BitAnd(n2, 12) \div 4) <= 63
        /\ Ipv6OfNibbles(n1, n2, n3, low).ds
               = BitOr(n1 * 4, BitAnd(n2, 12) \div 4)
        /\ Ipv6OfNibbles(n1, n2, n3, low).ecn = BitAnd(n2, 3)
        /\ Ipv6OfNibbles(n1, n2, n3, low).ecn <= 3
        /\ Ipv6OfNibbles(n1, n2, n3, low).flow_label = U32(n3, low)

\* C6: on at least 40 bytes parse_ipv6_header succeeds and consumes exactly
\* 40 bytes; with w the big-endian 32-bit value of bytes 0..3 (here its
\* halves, bytes 0..1 and bytes 2..3) version = w >> 28, ds = (w >> 22) & 0x3F,
\* ecn = (w >> 20) & 3 and flow_label = w & 0xFFFFF; the sums of the code
\* equal the ORs of the rule for all nibble values and do not overflow.
Ipv6HeaderFields ==
    /\ Ipv6SumsAreOrs
    /\ (decoder = "ipv6" /\ avail >= 40)
       => /\ outcome.kind = "Ok"
          /\ outcome.rest = Drop(Buffer, 40)
          /\ outcome.val.version = BE16(Buffer, 0) \div 4096
          /\ outcome.val.ds = (BE16(Buffer, 0) \div 64) % 64
          /\ outcome.val.ecn = (BE16(Buffer, 0) \div 16) % 4
          /\ outcome.val.flow_label
                 = U32(BE16(Buffer, 0) % 16, BE16(Buffer, 2))
          /\ outcome.val.ds <= 63
          /\ outcome.val.ecn <= 3
          /\ outcome.val.flow_label[1] < 16

\* a header whose first word is 0x6FFFFFFF has been decoded: every bit of
\* ds, ecn and flow_label is set
Ipv6AllBitsSet ==
    /\ decoder = "ipv6"
    /\ avail >= 40
    /\ Buffer[1] = 111
    /\ Buffer[2] = 255
    /\ IsOk(outcome)
    /\ outcome.val.version = 6
    /\ outcome.val.ds = 63
    /\ outcome.val.ecn = 3
    /\ outcome.val.flow_label = U32(15, 65535)

(***************************************************************************)
(* C7                                                                      *)
(***************************************************************************)
\* C7: when parse_vlan_ethernet_frame succeeds, vid is Some exactly when
\* bytes 12..13 are 0x8100; then vid is the raw 16-bit value of bytes 14..15,
\* ethertype the lookup of bytes 16..17 and 18 bytes are consumed; otherwise
\* vid is None, ethertype the lookup of bytes 12..13 and 14 bytes are
\* consumed.  Either way dest_mac is bytes 0..5 and source_mac bytes 6..11.
VlanFrameFields ==
    (decoder = "vlan" /\ IsOk(outcome))
    => /\ (outcome.val.vid # None) <=> (BE16(Buffer, 12) = 33024)
       /\ IF BE16(Buffer, 12) = 33024
          THEN /\ avail >= 18
               /\ outcome.val.vid = Some(BE16(Buffer, 14))
               /\ outcome.val.ethertype = EtherTypeFrom(BE16(Buffer, 16))
               /\ outcome.rest = Drop(Buffer, 18)
          ELSE /\ outcome.val.vid = None
               /\ outcome.val.ethertype = EtherTypeFrom(BE16(Buffer, 12))
               /\ outcome.rest = Drop(Buffer, 14)
       /\ outcome.val.dest_mac = Slice(Buffer, 0, 6)
       /\ outcome.val.source_mac = Slice(Buffer, 6, 12)

\* a tagged frame with priority bits set in the tag control field (0xE4D2)
\* has been decoded: vid is the whole 16-bit value
VlanTaggedDecoded ==
    /\ decoder = "vlan"
    /\ IsOk(outcome)
    /\ BE16(Buffer, 12) = 33024
    /\ outcome.val.vid = Some(58578)
    /\ outcome.val.ethertype = Named("IPv4")
    /\ outcome.rest = Drop(Buffer, 18)

(***************************************************************************)
(* C8                                                                      *)
(***************************************************************************)
\* C8: on at least 14 bytes parse_ethernet_frame succeeds and consumes
\* exactly 14 bytes, also when the ethertype is the VLAN marker 0x8100, with
\* dest_mac bytes 0..5, source_mac bytes 6..11 and ethertype the lookup of
\* bytes 12..13.
EthernetFrameFields ==
    (decoder = "ethernet" /\ avail >= 14)
    => /\ outcome.kind = "Ok"
       /\ outcome.rest = Drop(Buffer, 14)
       /\ outcome.val.dest_mac = Slice(Buffer, 0, 6)
       /\ outcome.val.source_mac = Slice(Buffer, 6, 12)
       /\ outcome.val.ethertype = EtherTypeFrom(BE16(Buffer, 12))

\* the plain decoder has been applied to a whole tagged frame: the tag stays
\* in the remainder
EthernetLeavesVlanTag ==
    /\ decoder = "ethernet"
    /\ avail >= 18
    /\ BE16(Buffer, 12) = 33024
    /\ IsOk(outcome)
    /\ outcome.val.ethertype = VLAN
    /\ outcome.val.dest_mac = DestMac
    /\ outcome.val.source_mac = SourceMac
    /\ outcome.rest = Drop(Buffer, 14)

(***************************************************************************)
(* C9                                                                      *)
(***************************************************************************)
\* the option at the head of a span, by its fixed layout
OptionAt(span) ==
    CASE span[1] = 0 -> EndOfOptions
      [] span[1] = 1 -> NoOperation
      [] span[1] = 2 -> MaximumSegmentSize(BE16(span, 2))
      [] span[1] = 3 -> WindowScale(span[3])
      [] span[1] = 4 -> SackPermitted

\* the span holds options of tags 1..4, each whole, followed by a tag 0
RECURSIVE EndsOptions(_)
EndsOptions(span) ==
    IF span = <<>> \/ span[1] \notin 0..4 THEN FALSE
    ELSE IF span[1] = 0 THEN TRUE
    ELSE /\ OptionWidth(span[1]) <= Len(span)
         /\ EndsOptions(Drop(span, OptionWidth(span[1])))

\* the options of such a span in wire order, EndOfOptions last
RECURSIVE OptionsOf(_)
OptionsOf(span) ==
    IF span[1] = 0 THEN <<EndOfOptions>>
    ELSE <<OptionAt(span)>> \o OptionsOf(Drop(span, OptionWidth(span[1])))

\* C9: when a TCP header has data_offset > 5 and its whole option span holds
\* options of tags 1..4 followed by tag 0, parse_tcp_header returns
\* options = Some(list), the list being those options in wire order ending
\* with EndOfOptions, each of its fixed width whatever its length byte says;
\* the span bytes after EndOfOptions are skipped and the remainder is the
\* input from byte 4 * data_offset on.
TcpOptionChain ==
    (/\ decoder = "tcp"
     /\ avail >= 20
     /\ DataOffsetOf(Buffer) > 5
     /\ avail >= 4 * DataOffsetOf(Buffer)
     /\ EndsOptions(OptionSpan(Buffer)))
    => /\ outcome.kind = "Ok"
       /\ outcome.val.options = Some(OptionsOf(OptionSpan(Buffer)))
       /\ outcome.rest = Drop(Buffer, 4 * DataOffsetOf(Buffer))

\* a span 03 09 04 00 (WindowScale with a length byte of 9, EndOfOptions)
\* has been decoded with payload after it
TcpWindowScaleDecoded ==
    /\ decoder = "tcp"
    /\ avail > 24
    /\ DataOffsetOf(Buffer) = 6
    /\ OptionSpan(Buffer) = <<3, 9, 4, 0>>
    /\ IsOk(outcome)
    /\ outcome.val.options = Some(<<WindowScale(4), EndOfOptions>>)
    /\ outcome.rest = Drop(Buffer, 24)

(***************************************************************************)
(* C10                                                                     *)
(***************************************************************************)
\* C10: when the 20 fixed bytes of a TCP header decode with data_offset > 5
\* and fewer than (data_offset - 5) * 4 bytes follow them, parse_tcp_header
\* returns Incomplete with exactly the shortfall; the length computed in u8
\* is (data_offset - 5) * 4 itself, at most 40.
TcpOptionsShortfall ==
    /\ \A data_offset \in 6..15 :
           /\ OptionsLength(data_offset) = (data_offset - 5) * 4
           /\ OptionsLength(data_offset) <= 40
    /\ (/\ decoder = "tcp"
        /\ avail >= 20
        /\ DataOffsetOf(Buffer) > 5
        /\ avail - 20 < (DataOffsetOf(Buffer) - 5) * 4)
       => outcome
              = Incomplete(((DataOffsetOf(Buffer) - 5) * 4) - (avail - 20))

\* a header with data offset 15 and 1 or more of its 40 option bytes there
\* has been decoded
TcpOffset15Short ==
    /\ decoder = "tcp"
    /\ avail > 20
    /\ DataOffsetOf(Buffer) = 15
    /\ outcome.kind = "Incomplete"
    /\ outcome.needed = 40 - (avail - 20)

(***************************************************************************)
(* C11                                                                     *)
(***************************************************************************)
\* the span is filled exactly by whole options of tags 1..4, with no tag 0
RECURSIVE FillsSpan(_)
FillsSpan(span) ==
    IF span = <<>> THEN TRUE
    ELSE /\ span[1] \in 1..4
         /\ OptionWidth(span[1]) <= Len(span)
         /\ FillsSpan(Drop(span, OptionWidth(span[1])))

\* the options of such a span in wire order
RECURSIVE CollectedOptions(_)
CollectedOptions(span) ==
    IF span = <<>> THEN <<>>
    ELSE <<OptionAt(span)>>
             \o CollectedOptions(Drop(span, OptionWidth(span[1])))

\* C11: when a TCP header has data_offset > 5 and its whole option span is
\* filled exactly by well-formed options of tags 1..4, with no EndOfOptions,
\* the decode succeeds and options holds the options collected up to the
\* end of the span, in order.
SpanWithoutEndKeepsOptions ==
    (/\ decoder = "tcp"
     /\ avail >= 20
     /\ DataOffsetOf(Buffer) > 5
     /\ avail >= 4 * DataOffsetOf(Buffer)
     /\ FillsSpan(OptionSpan(Buffer)))
    => /\ outcome.kind = "Ok"
       /\ outcome.val.options = Some(CollectedOptions(OptionSpan(Buffer)))

(***************************************************************************)
(* C12                                                                     *)
(***************************************************************************)
\* C12: every TcpHeader a successful parse_tcp_header returns has
\* data_offset >= 5, and the option bytes skipped after the 20 fixed bytes
\* are (data_offset - 5) * 4 in number.
TcpDataOffsetAtLeast5 ==
    (decoder = "tcp" /\ IsOk(outcome))
    => /\ outcome.val.data_offset >= 5
       /\ (avail - Len(outcome.rest)) - 20
              = (outcome.val.data_offset - 5) * 4

(***************************************************************************)
(* C13                                                                     *)
(***************************************************************************)
\* C13: in every IcmpHeader parse_icmp_header returns, data is Unreachable
\* exactly when code is DestinationUnreachable(_), Redirect exactly when
\* code is Redirect(_), TimeExceeded exactly when code is TimeExceeded(_),
\* and None for every other code, with exactly 4 bytes consumed then.  Type
\* 3 code 1 gives DestinationUnreachable(DestinationHostUnreachable) with
\* Unreachable data; type 5 code 1 gives Redirect(Host) with Redirect data.
IcmpDataMatchesCode ==
    (decoder = "icmp" /\ IsOk(outcome))
    => /\ (outcome.val.data.tag = "Unreachable")
              <=> (outcome.val.code.tag = "DestinationUnreachable")
       /\ (outcome.val.data.tag = "Redirect")
              <=> (outcome.val.code.tag = "Redirect")
       /\ (outcome.val.data.tag = "TimeExceeded")
              <=> (outcome.val.code.tag = "TimeExceeded")
       /\ (outcome.val.data.tag = "None")
              <=> (outcome.val.code.tag
                       \notin {"DestinationUnreachable", "Redirect",
                               "TimeExceeded"})
       /\ (outcome.val.data.tag = "None")
              => outcome.rest = Drop(Buffer, 4)
       /\ (Buffer[1] = 3 /\ Buffer[2] = 1)
              => /\ outcome.val.code
                        = Sub("DestinationUnreachable",
                              "DestinationHostUnreachable")
                 /\ outcome.val.data.tag = "Unreachable"
       /\ (Buffer[1] = 5 /\ Buffer[2] = 1)
              => /\ outcome.val.code = Sub("Redirect", "Host")
                 /\ outcome.val.data.tag = "Redirect"

\* a Destination Unreachable message whose code byte has no name (16) has
\* been decoded: the code is Other(0x0310), no payload is decoded and the
\* bytes after the checksum are the remainder
IcmpUnnamedCodeDecoded ==
    /\ decoder = "icmp"
    /\ avail >= 36
    /\ IsOk(outcome)
    /\ Buffer[1] = 3
    /\ Buffer[2] = 16
    /\ outcome.val.code = Other(784)
    /\ outcome.val.data.tag = "None"
    /\ outcome.rest = Drop(Buffer, 4)

(***************************************************************************)
(* C14                                                                     *)
(***************************************************************************)
\* C14: in each of the three payload branches a successful
\* parse_icmp_header consumes exactly 36 bytes; checksum is the big-endian
\* value of bytes 2..3; nexthop_mtu is that of bytes 6..7 (Unreachable),
\* gateway is bytes 4..7 (Redirect), bytes 4..7 are skipped (TimeExceeded);
\* the embedded header is parse_ipv4_header of bytes 8..27 and the payload
\* echo is bytes 28..35, whatever IHL the embedded header declares (so 36
\* bytes of such a message are enough for the decode to succeed).
IcmpPayloadLayout ==
    /\ (/\ decoder = "icmp"
        /\ avail >= 36
        /\ IcmpCodeFrom(BE16(Buffer, 0)).tag
               \in {"DestinationUnreachable", "Redirect", "TimeExceeded"})
       => outcome.kind = "Ok"
    /\ (/\ decoder = "icmp"
        /\ IsOk(outcome)
        /\ outcome.val.data.tag \in {"Unreachable", "Redirect", "TimeExceeded"})
       =>
       /\ outcome.rest = Drop(Buffer, 36)
       /\ outcome.val.checksum = BE16(Buffer, 2)
       /\ (outcome.val.data.tag = "Unreachable")
              => outcome.val.data.nexthop_mtu = BE16(Buffer, 6)
       /\ (outcome.val.data.tag = "Redirect")
              => outcome.val.data.gateway = Slice(Buffer, 4, 8)
       /\ parse_ipv4_header(Slice(Buffer, 8, 28))
              = Done(<<>>, outcome.val.data.header)
       /\ outcome.val.data.packet = Slice(Buffer, 28, 36)

\* a Destination Unreachable message whose embedded header declares IHL 15
\* has been decoded, with bytes after it on the wire
IcmpEmbeddedIhl15Decoded ==
    /\ decoder = "icmp"
    /\ avail > 36
    /\ IsOk(outcome)
    /\ outcome.val.data.tag = "Unreachable"
    /\ outcome.val.data.nexthop_mtu = 1500
    /\ outcome.val.data.header.ihl = 60
    /\ outcome.val.data.packet = <<1, 2, 3, 4, 5, 6, 7, 8>>
    /\ outcome.rest = Drop(Buffer, 36)

(***************************************************************************)
(* C15                                                                     *)
(***************************************************************************)
\* C15: parse_icmp_header applied to a 36-byte Destination Unreachable or
\* Redirect message with its last k bytes removed, 1 <= k <= 8 (the cut is
\* inside the 8-byte payload echo), returns Incomplete with needed count k;
\* with the last byte removed the count is 1.
IcmpEchoShortfall ==
    (/\ decoder = "icmp"
     /\ avail \in 28..35
     /\ IcmpCodeFrom(BE16(Buffer, 0)).tag
            \in {"DestinationUnreachable", "Redirect"})
    => outcome = Incomplete(36 - avail)

\* a Redirect message cut 3 bytes before its end has been decoded
IcmpRedirectCut3 ==
    /\ decoder = "icmp"
    /\ avail = 33
    /\ Buffer[1] = 5
    /\ Buffer[2] = 1
    /\ outcome = Incomplete(3)

(***************************************************************************)
(* C16                                                                     *)
(***************************************************************************)
\* the raw codes the variants of EtherType stand for
EtherTypeCodes ==
    { 46, 1500, 2048, 2054, 2114, 8947, 24579, 32821, 32923, 33011, 33024,
      33079, 33284, 34525, 34824, 34841, 34887, 34888, 34915, 34916, 34939,
      34958, 34962, 34970, 34978, 34980, 34984, 34987, 35000, 35001, 35020,
      35021, 35041, 35043, 35045, 35047, 35063, 35067, 35074, 35078, 35092,
      35093, 35101, 35119, 36864, 37120 }

\* the raw codes the variants of IPProtocol stand for
IPProtocolCodes == (0..17) \cup {41, 58}

\* the (type, code) pairs the variants of IcmpCode stand for
IcmpNamedPair(t, c) ==
    \/ t \in {0, 1, 2, 7, 8, 9, 10, 13, 14, 42}
    \/ t = 3 /\ c <= 15
    \/ t = 4 /\ c = 0
    \/ t = 5 /\ c <= 3
    \/ t = 11 /\ c <= 1
    \/ t = 12 /\ c <= 2
    \/ t = 43 /\ c <= 4

\* v is Other(raw) if raw is not one of the codes, a named value if it is
LookupOf(v, raw, codes) ==
    IF raw \in codes THEN v.tag # "Other" ELSE v = Other(raw)

\* every lookup gives, for every raw code, a named value or Other(raw)
AllCodesLookedUp ==
    /\ \A raw \in 0..65535 :
           /\ LookupOf(EtherTypeFrom(raw), raw, EtherTypeCodes)
           /\ LookupOf(HardwareAddressTypeFrom(raw), raw, {1})
           /\ LookupOf(ProtocolAddressTypeFrom(raw), raw, {2048})
           /\ LookupOf(OperationFrom(raw), raw, {1, 2})
    /\ \A raw \in 0..255 : LookupOf(IPProtocolFrom(raw), raw, IPProtocolCodes)
    /\ \A t \in 0..255, c \in 0..255 :
           IF IcmpNamedPair(t, c)
           THEN IcmpCodeFrom(t * 256 + c).tag # "Other"
           ELSE IcmpCodeFrom(t * 256 + c) = Other(t * 256 + c)

\* the value looked up is Other only with the raw code it was looked up from
KeepsRaw(v, raw) == v.tag = "Other" => v.raw = raw

\* C16: every enumerated-code lookup (EtherType, IPProtocol, the ARP
\* HardwareAddressType, ProtocolAddressType and Operation, IcmpCode) gives
\* a value for every raw code; a result Other(v) has v equal to the raw code
\* (type << 8 | code for IcmpCode), and every (type, code) pair without a
\* named variant gives Other.  The decoders return the values so looked up.
LookupsTotal ==
    /\ AllCodesLookedUp
    /\ (decoder = "ethernet" /\ IsOk(outcome))
           => KeepsRaw(outcome.val.ethertype, BE16(Buffer, 12))
    /\ (decoder = "ipv6" /\ IsOk(outcome))
           => KeepsRaw(outcome.val.next_header, Buffer[7])
    /\ (decoder = "arp" /\ IsOk(outcome))
           => /\ KeepsRaw(outcome.val.hw_addr_type, BE16(Buffer, 0))
              /\ KeepsRaw(outcome.val.proto_addr_type, BE16(Buffer, 2))
              /\ KeepsRaw(outcome.val.operation, BE16(Buffer, 6))
    /\ (decoder = "icmp" /\ IsOk(outcome))
           => /\ KeepsRaw(outcome.val.code, BE16(Buffer, 0))
              /\ (outcome.val.code.tag = "Other")
                     <=> ~IcmpNamedPair(Buffer[1], Buffer[2])

\* a Time Exceeded message of code 2, which has no name, has been decoded:
\* the code is Other(0x0B02)
IcmpOtherKeepsRaw ==
    /\ decoder = "icmp"
    /\ IsOk(outcome)
    /\ Buffer[1] = 11
    /\ Buffer[2] = 2
    /\ outcome.val.code = Other(2818)

(***************************************************************************)
(* C17                                                                     *)
(***************************************************************************)
\* C17: on at least 28 bytes parse_arp_pkt succeeds and consumes exactly 28
\* bytes whatever the size bytes 4 and 5 declare: hw_addr_size and
\* proto_addr_size are those bytes, operation is Request for 1, Reply for 2
\* and Other(raw) otherwise, src_mac is bytes 8..13, src_addr bytes 14..17,
\* dest_mac bytes 18..23 and dest_addr bytes 24..27.
ArpPacketFields ==
    (decoder = "arp" /\ avail >= 28)
    => /\ outcome.kind = "Ok"
       /\ outcome.rest = Drop(Buffer, 28)
       /\ outcome.val.hw_addr_size = Buffer[5]
       /\ outcome.val.proto_addr_size = Buffer[6]
       /\ outcome.val.operation
              = (IF BE16(Buffer, 6) = 1 THEN Named("Request")
                 ELSE IF BE16(Buffer, 6) = 2 THEN Named("Reply")
                 ELSE Other(BE16(Buffer, 6)))
       /\ outcome.val.src_mac = Slice(Buffer, 8, 14)
       /\ outcome.val.src_addr = Slice(Buffer, 14, 18)
       /\ outcome.val.dest_mac = Slice(Buffer, 18, 24)
       /\ outcome.val.dest_addr = Slice(Buffer, 24, 28)

\* a packet declaring 8-byte hardware and 16-byte protocol addresses, with
\* operation 3, has been decoded
ArpDeclaredSizesIgnored ==
    /\ decoder = "arp"
    /\ avail >= 28
    /\ Buffer[5] = 8
    /\ Buffer[6] = 16
    /\ IsOk(outcome)
    /\ outcome.val.hw_addr_size = 8
    /\ outcome.val.proto_addr_size = 16
    /\ outcome.val.operation = Other(3)
    /\ outcome.val.src_mac = <<0, 27, 33, 15, 145, 155>>
    /\ outcome.val.dest_addr = <<192, 168, 1, 253>>
    /\ outcome.rest = Drop(Buffer, 28)

(***************************************************************************)
(* C18                                                                     *)
(***************************************************************************)
\* C18: parse_udp_header succeeds on at least 8 bytes, consuming exactly 8
\* with source_port, dest_port, length and checksum the big-endian values
\* of bytes 0..1, 2..3, 4..5 and 6..7; on fewer than 8 bytes it returns
\* Incomplete; it never returns Failure.
UdpHeaderFields ==
    (decoder = "udp")
    => /\ outcome.kind # "Failure"
       /\ (avail < 8) => outcome.kind = "Incomplete"
       /\ (avail >= 8)
              => /\ outcome.kind = "Ok"
                 /\ outcome.rest = Drop(Buffer, 8)
                 /\ outcome.val.source_port = BE16(Buffer, 0)
                 /\ outcome.val.dest_port = BE16(Buffer, 2)
                 /\ outcome.val.length = BE16(Buffer, 4)
                 /\ outcome.val.checksum = BE16(Buffer, 6)

\* the header of the test vector has been decoded with payload after it
UdpHeaderDecoded ==
    /\ decoder = "udp"
    /\ avail > 8
    /\ IsOk(outcome)
    /\ outcome.val
           = [source_port |-> 18, dest_port |-> 4369, length |-> 27,
              checksum |-> 8463]
    /\ outcome.rest = Drop(Buffer, 8)

(***************************************************************************)
(* C19: the streaming caller.  It fixes the decoder of a packet when the   *)
(* packet is captured, appends the chunks that arrive to its buffer and    *)
(* applies that decoder to the whole buffer, again after each Incomplete.  *)
(***************************************************************************)
\* the packets on which the caller uses decoder d
StreamWires(d) ==
    CASE d = "ethernet" -> {EthernetWire(et) : et \in EtherCodes}
      [] d = "vlan" ->
            {VlanWire(tci, et) : tci \in TagControls, et \in EtherCodes}
                \cup {EthernetWire(et) : et \in EtherCodes}
      [] d = "arp" -> {ArpWire(s, op) : s \in ArpSizes, op \in ArpOperations}
      [] d = "ipv4" ->
            {Ipv4Wire(b0, ff, p) :
                 b0 \in VerIhlBytes, ff \in FlagFragFields, p \in ProtocolBytes}
      [] d = "ipv6" ->
            {Ipv6Wire(b0, b1, fl) :
                 b0 \in Ipv6FirstBytes, b1 \in Ipv6SecondBytes,
                 fl \in Ipv6FlowLow}
      [] d = "icmp" ->
            {IcmpWire(t, c) : t \in IcmpTypes, c \in IcmpCodes}
                \cup {IcmpWireIhl15(t) : t \in IcmpTypes}
      [] d = "tcp" ->
            {TcpWire(items) : items \in OptLists}
                \cup {TcpFixed(b12, b13) \o TailBytes :
                          b12 \in PlainOffsetBytes, b13 \in PlainFlagBytes}
                \cup {TcpOptionsFixture \o TailBytes}
      [] d = "udp" -> {UdpWire}

\* a packet is captured for decoder d: none of its bytes has arrived yet
StreamStart ==
    \E d \in Decoders :
        \E w \in StreamWires(d) :
            /\ wire = <<>>
            /\ wire' = w
            /\ avail' = 0
            /\ decoder' = d
            /\ outcome' = Idle

\* a chunk of the packet arrives and is appended to the buffer
StreamArrive ==
    \E k \in 1..MaxChunk :
        /\ wire # <<>>
        /\ outcome.kind \in {"Idle", "Incomplete"}
        /\ avail + k <= Len(wire)
        /\ avail' = avail + k
        /\ UNCHANGED <<wire, decoder>>

\* the caller's step on a chunk, before the first call or after an
\* Incomplete: it appends the chunk and applies the packet's decoder to the
\* whole grown buffer
StreamReceive ==
    /\ StreamArrive
    /\ outcome' = Run(decoder, SubSeq(wire, 1, avail'))

\* the caller is done with the packet: it has a result, or the packet has
\* arrived whole and is still Incomplete
StreamDone ==
    /\ wire # <<>>
    /\ \/ outcome.kind \in {"Ok", "Failure"}
       \/ outcome.kind = "Incomplete" /\ avail = Len(wire)
    /\ wire' = <<>>
    /\ avail' = 0
    /\ decoder' = "none"
    /\ outcome' = Idle

StreamNext == StreamStart \/ StreamReceive \/ StreamDone

\* Bytes keep arriving: while a chunk of the packet is outstanding and the
\* caller waits for bytes, a chunk arrives.  The steps of StreamNext that
\* are StreamArrive steps are the StreamReceive steps, and the decoders are
\* total, so this is weak fairness of StreamReceive.
StreamSpec == Init /\ [][StreamNext]_vars /\ WF_avail(StreamArrive)

\* the packet decodes when all of it is there
Decodable == wire # <<>> /\ IsOk(Run(decoder, wire))

\* the bytes the decoder consumes of a decodable packet
ConsumedOfWire == Len(wire) - Len(Run(decoder, wire).rest)

\* what the caller has seen of a decodable packet so far is in order: no
\* Failure; no Ok before the bytes consumed have arrived; the call made
\* once they have arrived is Ok, with the record of the decode of the whole
\* packet and the rest of the buffer as remainder
StreamObserved ==
    Decodable
    => /\ outcome.kind # "Failure"
       /\ (outcome.kind = "Ok") => avail >= ConsumedOfWire
       /\ (outcome.kind = "Incomplete") => avail < ConsumedOfWire
       /\ (outcome.kind = "Ok")
              => /\ outcome.val = Run(decoder, wire).val
                 /\ outcome.rest = SubSeq(wire, ConsumedOfWire + 1, avail)

\* the caller holds the record of a decodable packet
StreamDecoded ==
    /\ Decodable
    /\ outcome.kind = "Ok"
    /\ outcome.val = Run(decoder, wire).val

\* C19: a caller that appends the chunks that arrive to its buffer and
\* applies the same decoder to the whole buffer after each Incomplete never
\* sees Ok before the bytes the decoder consumes have arrived and never sees
\* Failure when the whole header decodes; once those bytes have arrived the
\* next call is Ok with the record and remainder of a decode of the whole
\* buffer; as bytes keep arriving, the decode completes.
StreamingRetry == []StreamObserved /\ (Decodable ~> StreamDecoded)

\* the TCP decoder, called again on the grown buffer, has returned the
\* header with its options as soon as the option span has arrived whole
StreamTcpCompleted ==
    /\ decoder = "tcp"
    /\ Decodable
    /\ avail = ConsumedOfWire
    /\ avail > 20
    /\ outcome.kind = "Ok"
    /\ outcome.val.options # None

(***************************************************************************)
(* C20: a decoder's result is decided by the bytes it consumes             *)
(***************************************************************************)
\* the bytes of the buffer that the successful call consumed
ConsumedOfBuffer == SubSeq(Buffer, 1, avail - Len(outcome.rest))

\* bytes that may follow the consumed ones in another input: none, an
\* END_OF_OPTIONS byte, a NO_OP and an unassigned tag, and what follows
\* them in the packet
Continuations ==
    {<<>>, <<END_OF_OPTIONS>>, <<NO_OP, 255>>,
     Drop(wire, avail - Len(outcome.rest))}

\* the decoder succeeds on input y with the record of the call on the
\* buffer, and leaves the continuation t of y
SameRecord(r, t) ==
    /\ r.kind = "Ok"
    /\ r.val = outcome.val
    /\ r.rest = t

\* C20: the result of a decoder is a function of the bytes it consumes:
\* the same call on the same buffer gives the same outcome, and when the
\* call is Ok consuming n bytes, every input with the same first n bytes
\* is Ok with the same record and has its own bytes from offset n as
\* remainder.
ConsumedBytesDecide ==
    /\ (outcome # Idle) => Run(decoder, Buffer) = outcome
    /\ (outcome.kind = "Ok")
           => /\ outcome.rest = Drop(Buffer, avail - Len(outcome.rest))
              /\ \A t \in Continuations :
                     SameRecord(Run(decoder, ConsumedOfBuffer \o t), t)

\* a TCP header whose option span holds no END_OF_OPTIONS was decoded from
\* a buffer with payload bytes: its record is that of the same header
\* followed by an END_OF_OPTIONS byte
TcpRecordIgnoresPayload ==
    /\ decoder = "tcp"
    /\ outcome.kind = "Ok"
    /\ outcome.val.data_offset > 5
    /\ outcome.val.options = None
    /\ outcome.rest # <<>>
    /\ Run("tcp", ConsumedOfBuffer \o <<END_OF_OPTIONS>>).val = outcome.val

(***************************************************************************)
(* C21: the fixed part of the TCP header                                   *)
(***************************************************************************)
\* the big-endian u32 at offset i of s, as its two 16-bit halves
BE32(s, i) == U32(BE16(s, i), BE16(s, i + 2))

\* bit mask (a power of two) of byte b is set
BitSet(b, mask) == (b \div mask) % 2 = 1

ShiftedNibble(ihl, byte0) ==
    /\ ihl = 4 * (byte0 % 16)
    /\ ihl % 4 = 0
    /\ ihl \in 0..60
    /\ ihl \div 4 = byte0 % 16

\* C22: the ihl that parse_ipv4_header reports is the header length in
\* bytes, 4 times the low nibble of byte 0 (20 for 0x45); it is a multiple
\* of 4 in 0..60 and the shift in the u8 loses no bit.  The same holds of
\* the header embedded in an ICMP message, whose byte 0 is byte 8 of the
\* message.
IhlShiftInRange ==
    /\ (decoder = "ipv4" /\ IsOk(outcome))
           => /\ ShiftedNibble(outcome.val.ihl, Buffer[1])
              /\ (Buffer[1] = 69) => outcome.val.ihl = 20
    /\ (/\ decoder = "icmp"
        /\ IsOk(outcome)
        /\ outcome.val.data.tag \in {"Unreachable", "Redirect", "TimeExceeded"})
           => ShiftedNibble(outcome.val.data.header.ihl, Buffer[9])

\* a header whose first byte is 0x4F has been decoded: ihl is 60, the
\* largest value the shift produces
Ihl60For0x4F ==
    /\ decoder = "ipv4"
    /\ IsOk(outcome)
    /\ Buffer[1] = 79
    /\ outcome.val.ihl = 60

(***************************************************************************)
(* C23: the loop of tcp_parse_options, one iteration at a step.            *)
(* parse_tcp_header enters it on the option span of a header whose span    *)
(* is whole; wire is the packet, avail counts the iterations made and      *)
(* outcome holds the loop's variables until the loop returns.              *)
(***************************************************************************)
\* the loop's variables left and options at the top of an iteration
Looping(left, options) == [kind |-> "Loop", rest |-> left, val |-> options]

\* A variant of the iteration that leaves left as it was after an option
\* other than EndOfOptions; OptionsLoopTerminates tells it from the code.
tcp_parse_options_iteration_keeps_left(left, options) ==
    IF ~IsOk(tcp_parse_option(left)) THEN tcp_parse_option(left)
    ELSE IF tcp_parse_option(left).val = EndOfOptions
         THEN Done(tcp_parse_option(left).rest, Append(options, EndOfOptions))
         ELSE Looping(left, Append(options, tcp_parse_option(left).val))

\* the arms of the match on r = tcp_parse_option(left): Err returns; Ok
\* assigns left, pushes the option, and breaks on EndOfOptions
tcp_parse_options_arm(r, options) ==
    IF ~IsOk(r) THEN r
    ELSE IF r.val = EndOfOptions
         THEN Done(r.rest, Append(options, r.val))
         ELSE Looping(r.rest, Append(options, r.val))

\* one iteration of the loop
tcp_parse_options_iteration(left, options) ==
    tcp_parse_options_arm(tcp_parse_option(left), options)

\* TCP packets whose header has data_offset > 5 and whose span is whole
OptionsLoopWires ==
    {w \in StreamWires("tcp") :
         DataOffsetOf(w) > 5 /\ 4 * DataOffsetOf(w) <= Len(w)}

\* parse_tcp_header calls tcp_parse_options(&left[0..options_length])
OptionsLoopEnter ==
    \E w \in OptionsLoopWires :
        /\ wire = <<>>
        /\ wire' = w
        /\ avail' = 0
        /\ decoder' = "tcp_parse_options"
        /\ outcome' = Looping(OptionSpan(w), <<>>)

OptionsLoopIterate ==
    /\ outcome.kind = "Loop"
    /\ outcome' = tcp_parse_options_iteration(outcome.rest, outcome.val)
    /\ avail' = avail + 1
    /\ UNCHANGED <<wire, decoder>>

\* the loop has returned to parse_tcp_header
OptionsLoopReturn ==
    /\ wire # <<>>
    /\ outcome.kind # "Loop"
    /\ wire' = <<>>
    /\ avail' = 0
    /\ decoder' = "none"
    /\ outcome' = Idle

OptionsLoopNext == OptionsLoopEnter \/ OptionsLoopIterate \/ OptionsLoopReturn

\* the loop is sequential code: it keeps running until it returns
OptionsLoopSpec ==
    Init /\ [][OptionsLoopNext]_vars /\ WF_vars(OptionsLoopIterate)

\* left is the end of the span: what the iterations have not consumed
LeftIsEndOfSpan ==
    outcome.rest
        = Slice(wire, 4 * DataOffsetOf(wire) - Len(outcome.rest),
                4 * DataOffsetOf(wire))

\* while the loop runs and when it has returned: every iteration but a
\* failing last one has consumed a byte or more of the span, left never
\* holds a byte at or beyond offset 4 * data_offset, and the loop returns
\* what tcp_parse_options returns on the span, which is what decides the
\* options of parse_tcp_header whatever follows the span
OptionsLoopBounded ==
    (decoder = "tcp_parse_options")
    => /\ avail <= Len(OptionSpan(wire)) + 1
       /\ (outcome.kind \in {"Loop", "Ok"})
              => /\ avail + Len(outcome.rest) <= Len(OptionSpan(wire))
                 /\ LeftIsEndOfSpan
                 /\ Len(outcome.val) = avail
       /\ (outcome.kind = "Ok")
              => outcome.val[Len(outcome.val)] = EndOfOptions
       /\ (outcome.kind # "Loop")
              => /\ outcome = tcp_parse_options(OptionSpan(wire))
                 /\ parse_tcp_header(wire).val.options
                        = (IF IsOk(outcome) THEN Some(outcome.val) ELSE None)
                 /\ parse_tcp_header(
                        SubSeq(wire, 1, 4 * DataOffsetOf(wire))
                            \o <<END_OF_OPTIONS>>).val.options
                        = (IF IsOk(outcome) THEN Some(outcome.val) ELSE None)

\* an iteration that does not return an error consumes a byte or more
IterationConsumes ==
    (outcome.kind = "Loop" /\ outcome'.kind \in {"Loop", "Ok"})
    => Len(outcome'.rest) < Len(outcome.rest)

OptionsLoopReturned == outcome.kind \in {"Ok", "Incomplete", "Failure"}

\* C23: the loop of tcp_parse_options terminates on every option span:
\* each successful iteration consumes at least one byte of the span, so it
\* returns after at most span length + 1 iterations, with EndOfOptions, the
\* Failure of an unknown tag or the Incomplete of an exhausted span; it
\* reads no byte at or beyond offset 4 * data_offset, so the bytes that
\* follow the span do not influence the options.
OptionsLoopTerminates ==
    /\ []OptionsLoopBounded
    /\ [][IterationConsumes]_vars
    /\ ((outcome.kind = "Loop") ~> OptionsLoopReturned)

\* the loop has returned Incomplete after consuming a whole span that holds
\* no EndOfOptions
OptionsLoopExhaustedSpan ==
    /\ decoder = "tcp_parse_options"
    /\ outcome.kind = "Incomplete"
    /\ avail > 1
    /\ \A i \in 1..Len(OptionSpan(wire)) : OptionSpan(wire)[i] # END_OF_OPTIONS

(***************************************************************************)
(* C24: one VLAN tag is unwrapped                                          *)
(***************************************************************************)
\* the buffer holds a frame with two tags: the marker 0x8100 at bytes
\* 12..13 and again at bytes 16..17
DoubleTagged ==
    /\ avail >= 18
    /\ BE16(Buffer, 12) = 33024
    /\ BE16(Buffer, 16) = 33024

\* C24: parse_vlan_ethernet_frame unwraps at most one VLAN tag: a
\* successful call consumes 14 or 18 bytes, and on a double-tagged frame it
\* is Ok with vid = Some(BE16 of bytes 14..15), ethertype = VLAN and the
\* remainder from byte 18 on, where the identifier field of the second tag
\* still is.
VlanUnwrapsOneTag ==
    (decoder = "vlan")
    => /\ IsOk(outcome) => avail - Len(outcome.rest) \in {14, 18}
       /\ DoubleTagged
              => /\ outcome.kind = "Ok"
                 /\ outcome.val.vid = Some(BE16(Buffer, 14))
                 /\ outcome.val.ethertype = VLAN
                 /\ outcome.rest = Drop(Buffer, 18)

\* a double-tagged frame has been decoded with the bytes after the second
\* marker in the buffer: they are the remainder
VlanSecondTagLeft ==
    /\ decoder = "vlan"
    /\ DoubleTagged
    /\ IsOk(outcome)
    /\ outcome.val.vid = Some(58578)
    /\ outcome.val.ethertype = VLAN
    /\ outcome.rest = TailBytes

(***************************************************************************)
(* C25                                                                     *)
(***************************************************************************)
\* C25: when a VLAN tag is present, the vid that parse_vlan_ethernet_frame
\* reports is the 12-bit VLAN identifier: the low 12 bits of the 2-byte
\* field after the marker, below 4096, without the priority and DEI bits.
VidIsTwelveBits ==
    (decoder = "vlan" /\ IsOk(outcome) /\ outcome.val.vid # None)
    => /\ outcome.val.vid = Some(BE16(Buffer, 14) % 4096)
       /\ outcome.val.vid[1] < 4096

(***************************************************************************)
(* C26: the option list is whole or absent                                 *)
(***************************************************************************)
\* the list is not empty, ends with EndOfOptions and holds no other one
EndsWithOnlyEnd(list) ==
    /\ list # <<>>
    /\ list[Len(list)] = EndOfOptions
    /\ \A i \in 1..(Len(list) - 1) : list[i] # EndOfOptions

\* C26: in every TcpHeader that parse_tcp_header returns, options is None
\* when data_offset <= 5, and when options is Some(list) the list is not
\* empty, its last element is EndOfOptions and no earlier element is: a
\* list collected in part is never returned.
OptionsListWhole ==
    (decoder = "tcp" /\ IsOk(outcome))
    => /\ (outcome.val.data_offset <= 5) => outcome.val.options = None
       /\ (outcome.val.options # None)
              => EndsWithOnlyEnd(outcome.val.options[1])

\* a header has been decoded whose span starts with EndOfOptions and goes
\* on with another option: the list is the EndOfOptions alone
TcpListStopsAtEnd ==
    /\ decoder = "tcp"
    /\ IsOk(outcome)
    /\ outcome.val.data_offset > 5
    /\ OptionSpan(Buffer)[1] = END_OF_OPTIONS
    /\ OptionSpan(Buffer)[2] # 0
    /\ outcome.val.options = Some(<<EndOfOptions>>)

(***************************************************************************)
(* C27: the two Ethernet decoders on untagged frames                       *)
(***************************************************************************)
\* bytes 12..13 of the buffer are there and are the VLAN marker
Tagged == avail >= 14 /\ BE16(Buffer, 12) = 33024

\* the outcome v of parse_vlan_ethernet_frame and the outcome e of
\* parse_ethernet_frame are of the same kind, with the same count when
\* Incomplete and the same addresses, ethertype and remainder when Ok, vid
\* being None
SameFrame(v, e) ==
    /\ v.kind = e.kind
    /\ (v.kind = "Incomplete") => v = e
    /\ (v.kind = "Ok")
           => /\ v.rest = e.rest
              /\ v.val.dest_mac = e.val.dest_mac
              /\ v.val.source_mac = e.val.source_mac
              /\ v.val.ethertype = e.val.ethertype
              /\ v.val.vid = None

\* C27: parse_vlan_ethernet_frame and parse_ethernet_frame agree on
\* untagged traffic: on every input whose bytes 12..13 are not 0x8100 they
\* return the same kind of outcome and, when Ok, the same dest_mac,
\* source_mac, ethertype and remainder, with vid = None.  They differ only
\* when bytes 12..13 are 0x8100, where the plain decoder reports ethertype
\* VLAN after 14 bytes.
VlanAgreesWhenUntagged ==
    (decoder = "vlan")
    => IF Tagged
       THEN /\ ~SameFrame(outcome, parse_ethernet_frame(Buffer))
            /\ parse_ethernet_frame(Buffer).kind = "Ok"
            /\ parse_ethernet_frame(Buffer).val.ethertype = VLAN
            /\ parse_ethernet_frame(Buffer).rest = Drop(Buffer, 14)
       ELSE SameFrame(outcome, parse_ethernet_frame(Buffer))

\* the VLAN-aware decoder has decoded an untagged ARP frame with bytes
\* after the header, as the plain decoder does
VlanUntaggedArpDecoded ==
    /\ decoder = "vlan"
    /\ avail > 14
    /\ BE16(Buffer, 12) = 2054
    /\ IsOk(outcome)
    /\ outcome.val.vid = None
    /\ outcome.val.ethertype = Named("ARP")
    /\ outcome.rest = parse_ethernet_frame(Buffer).rest

====
